---- MODULE Spec2Model ----
(***************************************************************************)
(* PortfolioOS: the cost-basis tracker (portfolio/cost_basis.py), the      *)
(* sidecar's stateless sell handler (main.py) and the Monte Carlo engines  *)
(* (simulation/monte_carlo.py, simulation/scenarios.py).                   *)
(*                                                                         *)
(* Python floats are modelled as exact rationals [n, d] in lowest terms,   *)
(* so every comparison of the code (including the 1e-9 tolerance) is       *)
(* evaluated exactly.  Dates "YYYY-MM-DD" are modelled as day ordinals:    *)
(* the lexicographic order of ISO dates is their chronological order.      *)
(***************************************************************************)
EXTENDS Integers, Sequences, FiniteSets, TLC

VARIABLES
    lots,          \* CostBasisTracker.lots: the in-memory tracker's lot list
    next_lot_id,   \* CostBasisTracker._next_lot_id
    op,            \* the last operation called on the tracker
    req,           \* the arguments of the last operation
    before,        \* lots as they were when the last operation was called
    err,           \* "none", or the ValueError the last operation raised
    disposed,      \* the list[DisposedLot] the last sell built
    nsplits,       \* number of splits replayed so far (bounded)
    nsells,        \* number of sell calls made so far (bounded)
    wire,          \* the serialized lot dicts a sidecar caller holds
    cfg,           \* the arguments of run_simulation / run_scenario
    returns,       \* the bootstrapped return matrix, one column per year drawn
    mc_portfolio,  \* run_simulation's portfolio array, one column per year
    sc_portfolio,  \* run_scenario's portfolio array, one column per year
    seed,          \* the seed argument given to the simulation calls
    calls,         \* the results of the seeded calls made so far, in call order
    phase,         \* where the reconciliation is: "none", "called", "replay", ...
    transactions,  \* reconcile_holdings' argument
    order,         \* sorted_txns as positions in transactions
    replayed,      \* how many of sorted_txns the loop has applied
    trackers,      \* trackers: key -> CostBasisTracker
    realized_gains, \* realized_gains: key -> float
    holdings,      \* the list reconcile_holdings returned
    stored,        \* the stored holdings given to detect_discrepancies
    discrepancies  \* the list detect_discrepancies returned

simVars == <<cfg, returns, mc_portfolio, sc_portfolio, seed, calls>>

reconVars == <<phase, transactions, order, replayed, trackers, realized_gains,
               holdings, stored, discrepancies>>

vars == <<lots, next_lot_id, op, req, before, err, disposed, nsplits, nsells, wire,
          cfg, returns, mc_portfolio, sc_portfolio, seed, calls,
          phase, transactions, order, replayed, trackers, realized_gains,
          holdings, stored, discrepancies>>

----------------------------------------------------------------------------
(* Bounds of the model *)

MaxLots == 2
MaxSplits == 1
MaxSells == 2

----------------------------------------------------------------------------
(* float arithmetic as exact rationals *)

RECURSIVE Gcd(_, _)
Gcd(a, b) == IF b = 0 THEN a ELSE Gcd(b, a % b)

Abs(x) == IF x < 0 THEN -x ELSE x

Rat(n, d) ==
    LET g == Gcd(Abs(n), Abs(d))
        s == IF d < 0 THEN -1 ELSE 1
    IN  [n |-> s * (n \div g), d |-> s * (d \div g)]

Int2R(k) == [n |-> k, d |-> 1]
RZero == Int2R(0)
ROne == Int2R(1)

RAdd(a, b) == Rat(a.n * b.d + b.n * a.d, a.d * b.d)
RSub(a, b) == Rat(a.n * b.d - b.n * a.d, a.d * b.d)
RMul(a, b) == Rat(a.n * b.n, a.d * b.d)
RDiv(a, b) == Rat(a.n * b.d, a.d * b.n)
RLt(a, b) == a.n * b.d < b.n * a.d
RLe(a, b) == a.n * b.d <= b.n * a.d
RMin(a, b) == IF RLe(a, b) THEN a ELSE b
RMax(a, b) == IF RLe(a, b) THEN b ELSE a

RECURSIVE RPow(_, _)
RPow(a, k) == IF k = 0 THEN ROne ELSE RMul(a, RPow(a, k - 1))

\* 1e-9 is 1 / EpsDen
EpsDen == 1000000000

\* x > 1e-9, evaluated without leaving 32 bits: n/d > 1/E  <=>  d/n < E
GtEps(x) == x.n > 0 /\ (x.d \div x.n) < EpsDen

----------------------------------------------------------------------------
(* cost_basis.py *)

_LONG_TERM_DAYS == 365

\* long_term from 365 days on
_holding_period_AtLeast(acquire_date, sell_date) ==
    IF sell_date - acquire_date >= _LONG_TERM_DAYS THEN "long_term" ELSE "short_term"

_holding_period(acquire_date, sell_date) ==
    IF sell_date - acquire_date > _LONG_TERM_DAYS THEN "long_term" ELSE "short_term"

TaxLot(date, quantity, price, fees, remaining_qty, lot_id) ==
    [date |-> date, quantity |-> quantity, price |-> price, fees |-> fees,
     remaining_qty |-> IF remaining_qty = RZero THEN quantity ELSE remaining_qty,
     lot_id |-> lot_id]

DisposedLot(lot_date, qty_sold, proceeds, cost_basis, gain_loss, holding_period) ==
    [lot_date |-> lot_date, qty_sold |-> qty_sold, proceeds |-> proceeds,
     cost_basis |-> cost_basis, gain_loss |-> gain_loss,
     holding_period |-> holding_period]

RECURSIVE SumRemaining(_)
SumRemaining(ls) ==
    IF ls = <<>> THEN RZero
    ELSE RAdd(Head(ls).remaining_qty, SumRemaining(Tail(ls)))

get_total_shares(ls) == SumRemaining(ls)

\* a cost that charges the whole buy fee to any part of the lot
LotCost_WholeFee(lot, qty) ==
    RAdd(RMul(qty, lot.price), lot.fees)

\* lines 235-237 and 410-413: sell_from_lot * lot.price + lot.fees * sell_from_lot / lot.quantity
LotCost(lot, qty) ==
    RAdd(RMul(qty, lot.price), RDiv(RMul(lot.fees, qty), lot.quantity))

RECURSIVE get_total_cost_basis(_)
get_total_cost_basis(ls) ==
    IF ls = <<>> THEN RZero
    ELSE IF RLe(Head(ls).remaining_qty, RZero)
         THEN get_total_cost_basis(Tail(ls))
         ELSE RAdd(LotCost(Head(ls), Head(ls).remaining_qty),
                   get_total_cost_basis(Tail(ls)))

\* DisposeFromLot without the min(): the lot is charged the whole remaining_to_sell
DisposeFromLot_NoMin(st, i, a) ==
    LET lot == st.lots[i]
        sell_from_lot == st.remaining_to_sell
        lot_cost == LotCost(lot, sell_from_lot)
        lot_proceeds == RMul(a.total_proceeds, RDiv(sell_from_lot, a.quantity))
    IN  [lots |-> [st.lots EXCEPT ![i].remaining_qty =
                        RSub(lot.remaining_qty, sell_from_lot)],
         disposed |-> Append(st.disposed,
                        DisposedLot(lot.date, sell_from_lot, lot_proceeds, lot_cost,
                                    RSub(lot_proceeds, lot_cost),
                                    _holding_period(lot.date, a.date))),
         remaining_to_sell |-> RZero]

\* lines 234-254 and 325-345: sell from one lot and record the DisposedLot.
\* st = [lots, disposed, remaining_to_sell]; i is the lot's place in st.lots.
DisposeFromLot(st, i, a) ==
    LET lot == st.lots[i]
        sell_from_lot == RMin(lot.remaining_qty, st.remaining_to_sell)
        lot_cost == LotCost(lot, sell_from_lot)
        lot_proceeds == RMul(a.total_proceeds, RDiv(sell_from_lot, a.quantity))
        gain == RSub(lot_proceeds, lot_cost)
        period == _holding_period(lot.date, a.date)
    IN  [lots |-> [st.lots EXCEPT ![i].remaining_qty =
                        RSub(lot.remaining_qty, sell_from_lot)],
         disposed |-> Append(st.disposed,
                        DisposedLot(lot.date, sell_from_lot, lot_proceeds,
                                    lot_cost, gain, period)),
         remaining_to_sell |-> RSub(st.remaining_to_sell, sell_from_lot)]

\* the for loop of _dispose_ordered over the (index, lot) pairs of `active`
RECURSIVE DisposeLoop(_, _, _)
DisposeLoop(st, active, a) ==
    IF active = <<>> \/ ~GtEps(st.remaining_to_sell) THEN st
    ELSE DisposeLoop(DisposeFromLot(st, Head(active), a), Tail(active), a)

SellStart(ls, date, quantity, price, fees) ==
    [st |-> [lots |-> ls, disposed |-> <<>>, remaining_to_sell |-> quantity],
     a  |-> [date |-> date, quantity |-> quantity,
             total_proceeds |-> RSub(RMul(quantity, price), fees)]]

\* ActiveIndices without the remaining_qty > 0 filter of line 223
ActiveIndices_All(ls, reverse) ==
    [k \in 1..Len(ls) |-> IF reverse THEN Len(ls) + 1 - k ELSE k]

\* lines 222-225: the lots with shares left, in list order or reversed
ActiveIndices(ls, reverse) ==
    LET indices == [k \in 1..Len(ls) |-> IF reverse THEN Len(ls) + 1 - k ELSE k]
    IN  SelectSeq(indices, LAMBDA i : RLt(RZero, ls[i].remaining_qty))

_dispose_ordered(ls, date, quantity, price, fees, reverse) ==
    LET s0 == SellStart(ls, date, quantity, price, fees)
        st == DisposeLoop(s0.st, ActiveIndices(ls, reverse), s0.a)
    IN  [lots |-> st.lots, disposed |-> st.disposed, err |-> "none"]

_sell_fifo(ls, date, quantity, price, fees) ==
    _dispose_ordered(ls, date, quantity, price, fees, FALSE)

_sell_lifo(ls, date, quantity, price, fees) ==
    _dispose_ordered(ls, date, quantity, price, fees, TRUE)

\* the reduction loop of _sell_average_cost (lines 280-288), in list order
RECURSIVE ReduceLoop(_, _, _)
ReduceLoop(ls, i, remaining_to_sell) ==
    IF i > Len(ls) \/ ~GtEps(remaining_to_sell) THEN ls
    ELSE IF RLe(ls[i].remaining_qty, RZero)
         THEN ReduceLoop(ls, i + 1, remaining_to_sell)
         ELSE LET sell_from_lot == RMin(ls[i].remaining_qty, remaining_to_sell)
              IN  ReduceLoop([ls EXCEPT ![i].remaining_qty =
                                  RSub(ls[i].remaining_qty, sell_from_lot)],
                             i + 1, RSub(remaining_to_sell, sell_from_lot))

\* the date of the first active lot in list order
EarliestDate_First(ls, date) ==
    LET active_lots == {i \in 1..Len(ls) : RLt(RZero, ls[i].remaining_qty)}
    IN  IF active_lots = {} THEN date
        ELSE ls[CHOOSE j \in active_lots : \A k \in active_lots : j <= k].date

\* min(lot.date for lot in active_lots) if active_lots else date
EarliestDate(ls, date) ==
    LET active_lots == {i \in 1..Len(ls) : RLt(RZero, ls[i].remaining_qty)}
    IN  IF active_lots = {} THEN date
        ELSE LET i == CHOOSE j \in active_lots :
                        \A k \in active_lots : ls[j].date <= ls[k].date
             IN  ls[i].date

_sell_average_cost(ls, date, quantity, price, fees) ==
    LET total_shares == get_total_shares(ls)
        total_cost == get_total_cost_basis(ls)
        avg_cost_per_share == IF RLt(RZero, total_shares)
                              THEN RDiv(total_cost, total_shares) ELSE RZero
        total_proceeds == RSub(RMul(quantity, price), fees)
        cost_basis == RMul(quantity, avg_cost_per_share)
        gain == RSub(total_proceeds, cost_basis)
        earliest_date == EarliestDate(ls, date)
        period == _holding_period(earliest_date, date)
    IN  [lots |-> ReduceLoop(ls, 1, quantity),
         disposed |-> <<DisposedLot(earliest_date, quantity, total_proceeds,
                                    cost_basis, gain, period)>>,
         err |-> "none"]

\* lot_map = {lot.lot_id: lot for lot in self.lots}: a later lot with the same id
\* replaces an earlier one; 0 when the id is no key of the map
LotMap(ls, lid) ==
    LET hits == {i \in 1..Len(ls) : ls[i].lot_id = lid}
    IN  IF hits = {} THEN 0 ELSE CHOOSE i \in hits : \A j \in hits : j <= i

\* the second for loop of _sell_specific (lines 320-345)
RECURSIVE SpecificLoop(_, _, _)
SpecificLoop(st, lot_ids, a) ==
    IF lot_ids = <<>> \/ ~GtEps(st.remaining_to_sell) THEN st
    ELSE SpecificLoop(DisposeFromLot(st, LotMap(st.lots, Head(lot_ids)), a),
                      Tail(lot_ids), a)

\* _sell_specific that covers a shortfall of the listed lots from the other lots
_sell_specific_Spill(ls, date, quantity, price, fees, lot_ids) ==
    IF \E k \in 1..Len(lot_ids) : LotMap(ls, lot_ids[k]) = 0
    THEN [lots |-> ls, disposed |-> <<>>, err |-> "lot_not_found"]
    ELSE LET s0 == SellStart(ls, date, quantity, price, fees)
             st == SpecificLoop(s0.st, lot_ids, s0.a)
             sp == DisposeLoop(st, ActiveIndices(st.lots, FALSE), s0.a)
         IN  [lots |-> sp.lots, disposed |-> sp.disposed, err |-> "none"]

_sell_specific(ls, date, quantity, price, fees, lot_ids) ==
    IF \E k \in 1..Len(lot_ids) : LotMap(ls, lot_ids[k]) = 0
    THEN [lots |-> ls, disposed |-> <<>>, err |-> "lot_not_found"]
    ELSE LET s0 == SellStart(ls, date, quantity, price, fees)
             st == SpecificLoop(s0.st, lot_ids, s0.a)
         IN  IF GtEps(st.remaining_to_sell)
             THEN [lots |-> st.lots, disposed |-> <<>>,
                   err |-> "insufficient_in_specified_lots"]
             ELSE [lots |-> st.lots, disposed |-> st.disposed, err |-> "none"]

\* sell without the availability check of lines 168-174
sell_NoCheck(ls, date, quantity, price, fees, method, lot_ids) ==
    IF method = "fifo" THEN _sell_fifo(ls, date, quantity, price, fees)
    ELSE IF method = "lifo" THEN _sell_lifo(ls, date, quantity, price, fees)
    ELSE IF method = "average_cost"
         THEN _sell_average_cost(ls, date, quantity, price, fees)
    ELSE IF method = "specific_id" /\ lot_ids # <<>>
         THEN _sell_specific(ls, date, quantity, price, fees, lot_ids)
    ELSE [lots |-> ls, disposed |-> <<>>, err |-> "unknown_method"]

\* CostBasisTracker.sell: the lots after the call, the list returned, the error raised
sell(ls, date, quantity, price, fees, method, lot_ids) ==
    LET total_available == get_total_shares(ls)
    IN  IF GtEps(RSub(quantity, total_available))
        THEN [lots |-> ls, disposed |-> <<>>, err |-> "insufficient_shares"]
        ELSE IF method = "fifo" THEN _sell_fifo(ls, date, quantity, price, fees)
        ELSE IF method = "lifo" THEN _sell_lifo(ls, date, quantity, price, fees)
        ELSE IF method = "average_cost"
             THEN _sell_average_cost(ls, date, quantity, price, fees)
        ELSE IF method = "specific_id"
             THEN IF lot_ids = <<>>
                  THEN [lots |-> ls, disposed |-> <<>>, err |-> "lot_ids_required"]
                  ELSE _sell_specific(ls, date, quantity, price, fees, lot_ids)
        ELSE [lots |-> ls, disposed |-> <<>>, err |-> "unknown_method"]

\* f"lot-{k}"
LotId(k) == <<"lot-", k>>

\* add_buy that does not advance _next_lot_id
add_buy_SameId(ls, nid, date, quantity, price, fees) ==
    [lots |-> Append(ls, TaxLot(date, quantity, price, fees, quantity, LotId(nid))),
     next_lot_id |-> nid,
     lot_id |-> LotId(nid)]

\* CostBasisTracker.add_buy: the lots and counter after the call, the id returned
add_buy(ls, nid, date, quantity, price, fees) ==
    [lots |-> Append(ls, TaxLot(date, quantity, price, fees, quantity, LotId(nid))),
     next_lot_id |-> nid + 1,
     lot_id |-> LotId(nid)]

\* a split that leaves the price of every lot as it was
_apply_split_KeepPrice(ls, ratio) ==
    IF RLe(ratio, RZero) THEN ls
    ELSE [i \in 1..Len(ls) |->
            [ls[i] EXCEPT !.quantity = RMul(ls[i].quantity, ratio),
                          !.remaining_qty = RMul(ls[i].remaining_qty, ratio)]]

\* reconciliation.py _apply_split
_apply_split(ls, ratio) ==
    IF RLe(ratio, RZero) THEN ls
    ELSE [i \in 1..Len(ls) |->
            [ls[i] EXCEPT !.quantity = RMul(ls[i].quantity, ratio),
                          !.remaining_qty = RMul(ls[i].remaining_qty, ratio),
                          !.price = RDiv(ls[i].price, ratio)]]

UnrealizedGain(lot_date, shares, cost_basis, market_value, unrealized_gain, holding_period) ==
    [lot_date |-> lot_date, shares |-> shares, cost_basis |-> cost_basis,
     market_value |-> market_value, unrealized_gain |-> unrealized_gain,
     holding_period |-> holding_period]

\* CostBasisTracker.get_unrealized_gains with an explicit as_of_date
RECURSIVE get_unrealized_gains(_, _, _)
get_unrealized_gains(ls, current_price, as_of_date) ==
    IF ls = <<>> THEN <<>>
    ELSE LET lot == Head(ls)
             rest == get_unrealized_gains(Tail(ls), current_price, as_of_date)
             cost == LotCost(lot, lot.remaining_qty)
             market_value == RMul(lot.remaining_qty, current_price)
         IN  IF RLe(lot.remaining_qty, RZero) THEN rest
             ELSE <<UnrealizedGain(lot.date, lot.remaining_qty, cost, market_value,
                                   RSub(market_value, cost),
                                   _holding_period(lot.date, as_of_date))>> \o rest

\* the lot dicts of CostBasisTracker.to_dict()["lots"]
ToDictLots(ls) ==
    [i \in 1..Len(ls) |->
        [date |-> ls[i].date, quantity |-> ls[i].quantity, price |-> ls[i].price,
         fees |-> ls[i].fees, remaining_qty |-> ls[i].remaining_qty,
         lot_id |-> ls[i].lot_id]]

to_dict(ls) ==
    [lots |-> ToDictLots(ls),
     total_shares |-> get_total_shares(ls),
     total_cost_basis |-> get_total_cost_basis(ls)]

\* main.py lines 98-108: one TaxLot per lot dict, appended to a fresh tracker
Rehydrate(dicts) ==
    [i \in 1..Len(dicts) |->
        TaxLot(dicts[i].date, dicts[i].quantity, dicts[i].price, dicts[i].fees,
               dicts[i].remaining_qty, dicts[i].lot_id)]

\* main.py _handle_cost_basis_sell: the response, or the error that propagates
_handle_cost_basis_sell(dicts, date, quantity, price, fees, method, lot_ids) ==
    LET r == sell(Rehydrate(dicts), date, quantity, price, fees, method, lot_ids)
    IN  IF r.err # "none"
        THEN [err |-> r.err, disposed |-> <<>>, tracker |-> to_dict(<<>>)]
        ELSE [err |-> "none", disposed |-> r.disposed, tracker |-> to_dict(r.lots)]

----------------------------------------------------------------------------
(* Inputs *)

\* Purchases: two acquisition dates, the share price of each day, one lot size, a fee
BuyDates == {1, 2}
PriceAt(date) == Int2R(2 * date)
Qtys == {Int2R(2)}
BuyFees == {ROne}
\* Sales: 365 and 366 days after the purchase dates
SellDates == {367}
SellPrices == {Int2R(3)}
SellFees == {ROne}
SellQtys == {Int2R(1), Int2R(2), Int2R(3)}
Methods == {"fifo", "lifo", "average_cost", "specific_id", "random"}
Ratios == {Int2R(2), Rat(1, 2), RZero, Int2R(-1)}
\* specific_id sales name no lot, one lot or two lots (possibly the same one twice)
\* among the first lot, the second lot and an id no tracker issues
LotIdInputs == {LotId(0), LotId(1), <<"bogus">>}
LotIdLists ==
    {<<>>} \cup {<<a>> : a \in LotIdInputs} \cup {<<a, b>> : a, b \in LotIdInputs}

NoReq ==
    [date |-> 0, quantity |-> RZero, price |-> RZero, fees |-> RZero,
     method |-> "", lot_ids |-> <<>>, ratio |-> RZero]

NoWire == [lots |-> <<>>, err |-> "none"]

\* no simulation has been called
NoCfg == [initial_portfolio |-> RZero, annual_withdrawal |-> RZero,
          return_distribution |-> <<>>, withdrawal_strategy |-> "",
          life_events |-> <<>>, inflation_rate |-> RZero]

\* seed=None
NoSeed == -1

\* reconcile_holdings has not been called
NoRecon ==
    /\ phase = "none"
    /\ transactions = <<>>
    /\ order = <<>>
    /\ replayed = 0
    /\ trackers = <<>>
    /\ realized_gains = <<>>
    /\ holdings = <<>>
    /\ stored = <<>>
    /\ discrepancies = <<>>

NoSim ==
    /\ NoRecon
    /\ seed = NoSeed
    /\ calls = <<>>
    /\ cfg = NoCfg
    /\ returns = <<>>
    /\ mc_portfolio = <<>>
    /\ sc_portfolio = <<>>

----------------------------------------------------------------------------
(* The in-memory tracker: add_buy, sell and split on one CostBasisTracker *)

Init ==
    /\ lots = <<>>
    /\ next_lot_id = 0
    /\ op = "idle"
    /\ req = NoReq
    /\ before = <<>>
    /\ err = "none"
    /\ disposed = <<>>
    /\ nsplits = 0
    /\ nsells = 0
    /\ wire = NoWire
    /\ NoSim

AddBuy ==
    \E date \in BuyDates, quantity \in Qtys, fees \in BuyFees :
      LET price == PriceAt(date) IN
        /\ op = "idle"
        /\ Len(lots) < MaxLots
        /\ LET r == add_buy(lots, next_lot_id, date, quantity, price, fees)
           IN  /\ lots' = r.lots
               /\ next_lot_id' = r.next_lot_id
        /\ op' = "add_buy"
        /\ req' = [NoReq EXCEPT !.date = date, !.quantity = quantity,
                                !.price = price, !.fees = fees]
        /\ before' = lots
        /\ err' = "none"
        /\ disposed' = <<>>
        /\ UNCHANGED <<nsplits, nsells, wire, simVars, reconVars>>

Sell ==
    \E date \in SellDates, quantity \in SellQtys, price \in SellPrices,
       fees \in SellFees, method \in Methods :
      \E lot_ids \in (IF method = "specific_id" THEN LotIdLists ELSE {<<>>}) :
        /\ op = "idle"
        /\ nsells < MaxSells
        /\ LET r == sell(lots, date, quantity, price, fees, method, lot_ids)
           IN  /\ lots' = r.lots
               /\ err' = r.err
               /\ disposed' = r.disposed
        /\ op' = "sell"
        /\ req' = [NoReq EXCEPT !.date = date, !.quantity = quantity,
                                !.price = price, !.fees = fees,
                                !.method = method, !.lot_ids = lot_ids]
        /\ before' = lots
        /\ nsells' = nsells + 1
        /\ UNCHANGED <<next_lot_id, nsplits, wire, simVars, reconVars>>

Split ==
    \E ratio \in Ratios :
        /\ op = "idle"
        /\ RLt(RZero, ratio) => nsplits < MaxSplits
        /\ lots' = _apply_split(lots, ratio)
        /\ nsplits' = IF RLt(RZero, ratio) THEN nsplits + 1 ELSE nsplits
        /\ op' = "split"
        /\ req' = [NoReq EXCEPT !.ratio = ratio]
        /\ before' = lots
        /\ err' = "none"
        /\ disposed' = <<>>
        /\ UNCHANGED <<next_lot_id, nsells, wire, simVars, reconVars>>

\* the call has returned and its result has been consumed by the caller
Return ==
    /\ op # "idle"
    /\ op' = "idle"
    /\ req' = NoReq
    /\ before' = lots
    /\ err' = "none"
    /\ disposed' = <<>>
    /\ UNCHANGED <<lots, next_lot_id, nsplits, nsells, wire, simVars, reconVars>>

Next == AddBuy \/ Sell \/ Split \/ Return

Spec == Init /\ [][Next]_vars

----------------------------------------------------------------------------
(* The sidecar chain: every sell is applied to the in-memory tracker and,  *)
(* through _handle_cost_basis_sell, to the lot dicts the caller holds; the *)
(* caller keeps the lots of the last successful response.                  *)

RECURSIVE Built(_)
Built(n) ==
    IF n = 0 THEN {[lots |-> <<>>, next_lot_id |-> 0]}
    ELSE {add_buy(t.lots, t.next_lot_id, date, quantity, PriceAt(date), fees) :
            t \in Built(n - 1), date \in BuyDates, quantity \in Qtys,
            fees \in BuyFees}

SidecarInit ==
    /\ NoSim
    /\ \E n \in 1..MaxLots : \E t \in Built(n) :
        /\ lots = t.lots
        /\ next_lot_id = t.next_lot_id
        /\ op = "idle"
        /\ req = NoReq
        /\ before = t.lots
        /\ err = "none"
        /\ disposed = <<>>
        /\ nsplits = 0
        /\ nsells = 0
        /\ wire = [lots |-> to_dict(t.lots).lots, err |-> "none"]

SidecarSell ==
    \E date \in SellDates, quantity \in SellQtys, price \in SellPrices,
       fees \in SellFees, method \in Methods :
      \E lot_ids \in (IF method = "specific_id" THEN LotIdLists ELSE {<<>>}) :
        /\ op = "idle"
        /\ nsells < MaxSells
        /\ LET r == sell(lots, date, quantity, price, fees, method, lot_ids)
               w == _handle_cost_basis_sell(wire.lots, date, quantity, price,
                                            fees, method, lot_ids)
           IN  /\ lots' = r.lots
               /\ err' = r.err
               /\ disposed' = r.disposed
               /\ wire' = [lots |-> IF w.err = "none" THEN w.tracker.lots
                                    ELSE wire.lots,
                           err |-> w.err]
        /\ op' = "sell"
        /\ req' = [NoReq EXCEPT !.date = date, !.quantity = quantity,
                                !.price = price, !.fees = fees,
                                !.method = method, !.lot_ids = lot_ids]
        /\ before' = lots
        /\ nsells' = nsells + 1
        /\ UNCHANGED <<next_lot_id, nsplits, simVars, reconVars>>

SidecarNext == SidecarSell \/ Return

SidecarSpec == SidecarInit /\ [][SidecarNext]_vars

----------------------------------------------------------------------------
(* simulation/withdrawal.py *)

_GK_CEILING_MULTIPLIER == Rat(12, 10)
_GK_FLOOR_MULTIPLIER == Rat(8, 10)
_GK_ADJUSTMENT == Rat(1, 10)

\* a constant-dollar withdrawal that is not adjusted for inflation
constant_dollar_withdrawal_NoInflation(initial_withdrawal, year, inflation_rate) ==
    initial_withdrawal

\* withdrawal.py lines 24-43
constant_dollar_withdrawal(initial_withdrawal, year, inflation_rate) ==
    RMul(initial_withdrawal, RPow(RAdd(ROne, inflation_rate), year))

\* guyton_klinger_withdrawal without the prosperity rule
guyton_klinger_withdrawal_NoProsperity(initial_withdrawal, year, inflation_rate, portfolio_value, previous_portfolio_value) ==
    IF year = 0 THEN initial_withdrawal
    ELSE
    LET inflated == RMul(initial_withdrawal, RPow(RAdd(ROne, inflation_rate), year))
        initial_rate == RDiv(initial_withdrawal, previous_portfolio_value)
        skip == RLt(portfolio_value, previous_portfolio_value)
                /\ RLt(initial_rate, RDiv(inflated, portfolio_value))
        base_withdrawal ==
            IF skip
            THEN RMul(initial_withdrawal,
                      RPow(RAdd(ROne, inflation_rate), year - 1))
            ELSE inflated
        current_rate == RDiv(base_withdrawal, portfolio_value)
    IN  IF RLt(RMul(initial_rate, _GK_CEILING_MULTIPLIER), current_rate)
        THEN RMul(base_withdrawal, RSub(ROne, _GK_ADJUSTMENT))
        ELSE base_withdrawal

\* guyton_klinger_withdrawal that tests the ceiling against the withdrawal rate
\* as it was before the inflation rule
guyton_klinger_withdrawal_CeilingFirst(initial_withdrawal, year, inflation_rate, portfolio_value, previous_portfolio_value) ==
    IF year = 0 THEN initial_withdrawal
    ELSE
    LET inflated == RMul(initial_withdrawal, RPow(RAdd(ROne, inflation_rate), year))
        initial_rate == RDiv(initial_withdrawal, previous_portfolio_value)
        early_rate == RDiv(inflated, portfolio_value)
        skip == RLt(portfolio_value, previous_portfolio_value)
                /\ RLt(initial_rate, early_rate)
        base_withdrawal ==
            IF skip
            THEN RMul(initial_withdrawal,
                      RPow(RAdd(ROne, inflation_rate), year - 1))
            ELSE inflated
        current_rate == RDiv(base_withdrawal, portfolio_value)
        cut == IF RLt(RMul(initial_rate, _GK_CEILING_MULTIPLIER), early_rate)
               THEN RMul(base_withdrawal, RSub(ROne, _GK_ADJUSTMENT))
               ELSE base_withdrawal
    IN  IF RLt(current_rate, RMul(initial_rate, _GK_FLOOR_MULTIPLIER))
        THEN RMul(cut, RAdd(ROne, _GK_ADJUSTMENT))
        ELSE cut

\* withdrawal.py lines 76-101
guyton_klinger_withdrawal(initial_withdrawal, year, inflation_rate, portfolio_value, previous_portfolio_value) ==
    IF year = 0 THEN initial_withdrawal
    ELSE
    LET inflated == RMul(initial_withdrawal, RPow(RAdd(ROne, inflation_rate), year))
        initial_rate == RDiv(initial_withdrawal, previous_portfolio_value)
        portfolio_declined == RLt(portfolio_value, previous_portfolio_value)
        skip == portfolio_declined
                /\ RLt(initial_rate, RDiv(inflated, portfolio_value))
        base_withdrawal ==
            IF skip
            THEN RMul(initial_withdrawal,
                      RPow(RAdd(ROne, inflation_rate), year - 1))
            ELSE inflated
        current_rate == RDiv(base_withdrawal, portfolio_value)
        ceiling == RMul(initial_rate, _GK_CEILING_MULTIPLIER)
        cut == IF RLt(ceiling, current_rate)
               THEN RMul(base_withdrawal, RSub(ROne, _GK_ADJUSTMENT))
               ELSE base_withdrawal
        floor == RMul(initial_rate, _GK_FLOOR_MULTIPLIER)
    IN  IF RLt(current_rate, floor)
        THEN RMul(cut, RAdd(ROne, _GK_ADJUSTMENT))
        ELSE cut

----------------------------------------------------------------------------
(* simulation/monte_carlo.py and simulation/scenarios.py *)

\* Number of trials and of years of every simulated run
NTrials == 2
NYears == 2

Trials == 1..NTrials

\* the floor at 0 left out
Maximum0_NoFloor(x) == x

\* np.maximum(x, 0.0)
Maximum0(x) == RMax(x, RZero)

\* withdrawals[yr] that ignores annual_withdrawal and takes one dollar
withdrawals_Flat(annual_withdrawal, inflation_rate, yr) ==
    RPow(RAdd(ROne, inflation_rate), yr)

\* monte_carlo.py lines 67-68: withdrawals[yr]
withdrawals(annual_withdrawal, inflation_rate, yr) ==
    RMul(annual_withdrawal, RPow(RAdd(ROne, inflation_rate), yr))

\* monte_carlo.py lines 75-76: the column of year yr + 1 from that of year yr
SimulationYear(c, column, sampled, yr) ==
    [t \in Trials |->
        LET grown == RMul(column[t], RAdd(ROne, sampled[t]))
        IN  Maximum0(RSub(grown, withdrawals(c.annual_withdrawal,
                                             c.inflation_rate, yr)))]

\* _compute_withdrawal that takes the constant-dollar amount for every strategy
_compute_withdrawal_Dollar(strategy, initial_withdrawal, year, inflation_rate, portfolio_values, initial_portfolio, prev_portfolio) ==
    [t \in Trials |->
        constant_dollar_withdrawal(initial_withdrawal, year, inflation_rate)]

\* scenarios.py lines 248-297: the withdrawal of every trial at year
_compute_withdrawal(strategy, initial_withdrawal, year, inflation_rate, portfolio_values, initial_portfolio, prev_portfolio) ==
    IF strategy = "constant_dollar"
    THEN [t \in Trials |->
            constant_dollar_withdrawal(initial_withdrawal, year, inflation_rate)]
    ELSE IF strategy = "constant_percentage"
    THEN LET rate == IF RLt(RZero, initial_portfolio)
                     THEN RDiv(initial_withdrawal, initial_portfolio)
                     ELSE Rat(4, 100)
         IN  [t \in Trials |-> RMul(portfolio_values[t], rate)]
    ELSE IF strategy = "guyton_klinger"
    THEN [t \in Trials |->
            guyton_klinger_withdrawal(initial_withdrawal, year, inflation_rate,
                                      RMax(portfolio_values[t], ROne),
                                      RMax(prev_portfolio[t], ROne))]
    ELSE [t \in Trials |->
            constant_dollar_withdrawal(initial_withdrawal, year, inflation_rate)]

\* an adjustment that counts a savings_rate_change as an inflow
RECURSIVE _compute_event_adjustment_Savings(_)
_compute_event_adjustment_Savings(events) ==
    IF events = <<>> THEN RZero
    ELSE LET event == Head(events)
             rest == _compute_event_adjustment_Savings(Tail(events))
         IN  IF event.type = "expense" THEN RSub(rest, event.amount)
             ELSE RAdd(event.amount, rest)

\* scenarios.py lines 300-324: the net adjustment of one year's events
RECURSIVE _compute_event_adjustment(_)
_compute_event_adjustment(events) ==
    IF events = <<>> THEN RZero
    ELSE LET event == Head(events)
             rest == _compute_event_adjustment(Tail(events))
         IN  IF event.type \in {"windfall", "income_change"}
             THEN RAdd(event.amount, rest)
             ELSE IF event.type = "expense"
             THEN RSub(rest, event.amount)
             ELSE rest

\* scenarios.py lines 129-134 and 151: events_by_year.get(yr, [])
events_by_year(life_events, yr) ==
    SelectSeq(life_events, LAMBDA event : event.year = yr)

\* scenarios.py lines 140-154: the column of year yr + 1
ScenarioYear(c, portfolio, sampled, yr) ==
    LET column == portfolio[yr + 1]
        prev == portfolio[(IF yr - 1 > 0 THEN yr - 1 ELSE 0) + 1]
        withdrawal == _compute_withdrawal(c.withdrawal_strategy,
                          c.annual_withdrawal, yr, c.inflation_rate,
                          column, c.initial_portfolio, prev)
        event_adjustment ==
            _compute_event_adjustment(events_by_year(c.life_events, yr))
    IN  [t \in Trials |->
            LET grown == RMul(column[t], RAdd(ROne, sampled[t]))
            IN  Maximum0(RAdd(RSub(grown, withdrawal[t]), event_adjustment))]

\* portfolio[:, -1] >= 0 in place of > 0
Survived_NonNegative(value) == RLe(RZero, value)

\* monte_carlo.py line 79, scenarios.py line 156: portfolio[:, -1] > 0
Survived(value) == RLt(RZero, value)

success_rate(portfolio) ==
    LET final == portfolio[Len(portfolio)]
    IN  Rat(Cardinality({t \in Trials : Survived(final[t])}), NTrials)

----------------------------------------------------------------------------
(* The simulation engines: run_simulation and run_scenario are called with  *)
(* the same arguments and seed, so both consume the same bootstrapped       *)
(* return matrix.  bootstrap_returns fills the matrix with independent      *)
(* draws from return_distribution; the draws of a year's column are made    *)
(* when the first engine reaches that year.                                 *)

InitialPortfolios == {Int2R(-1), RZero, Int2R(4)}
AnnualWithdrawals == {Int2R(-1), RZero, ROne}
InflationRates == {Int2R(-2), RZero, ROne}
ReturnDistributions == {<<Int2R(-1)>>, <<Rat(-1, 2), ROne>>, <<Int2R(-2), ROne>>}
WithdrawalStrategies ==
    {"constant_dollar", "constant_percentage", "guyton_klinger", "fixed"}

LifeEvent(year, type, amount) == [year |-> year, type |-> type, amount |-> amount]

LifeEventLists ==
    { <<>>,
      <<LifeEvent(1, "windfall", Int2R(3))>>,
      <<LifeEvent(0, "expense", Int2R(5)),
        LifeEvent(NYears, "income_change", Int2R(4))>>,
      <<LifeEvent(1, "windfall", Int2R(3)), LifeEvent(1, "expense", Int2R(4)),
        LifeEvent(0, "savings_rate_change", Int2R(9))>> }

trackerVars ==
    <<lots, next_lot_id, op, req, before, err, disposed, nsplits, nsells, wire>>

SimInit ==
    /\ lots = <<>>
    /\ next_lot_id = 0
    /\ op = "idle"
    /\ req = NoReq
    /\ before = <<>>
    /\ err = "none"
    /\ disposed = <<>>
    /\ nsplits = 0
    /\ nsells = 0
    /\ wire = NoWire
    /\ \E initial_portfolio \in InitialPortfolios,
          annual_withdrawal \in AnnualWithdrawals,
          inflation_rate \in InflationRates,
          return_distribution \in ReturnDistributions,
          withdrawal_strategy \in WithdrawalStrategies,
          life_events \in LifeEventLists :
        /\ cfg = [initial_portfolio |-> initial_portfolio,
                  annual_withdrawal |-> annual_withdrawal,
                  return_distribution |-> return_distribution,
                  withdrawal_strategy |-> withdrawal_strategy,
                  life_events |-> life_events,
                  inflation_rate |-> inflation_rate]
        /\ mc_portfolio = <<[t \in Trials |-> initial_portfolio]>>
        /\ sc_portfolio = <<[t \in Trials |-> initial_portfolio]>>
    /\ returns = <<>>
    /\ seed = NoSeed
    /\ calls = <<>>
    /\ NoRecon

\* analysis/statistics.py bootstrap_returns: one column of the return matrix,
\* every entry an element of the distribution
BootstrapReturns ==
    /\ Len(returns) < NYears
    /\ Len(mc_portfolio) = Len(returns) + 1
    /\ Len(sc_portfolio) = Len(returns) + 1
    /\ \E idx \in [Trials -> 1..Len(cfg.return_distribution)] :
        returns' = Append(returns,
                          [t \in Trials |-> cfg.return_distribution[idx[t]]])
    /\ UNCHANGED <<cfg, mc_portfolio, sc_portfolio, trackerVars, seed, calls, reconVars>>

\* run_simulation, one iteration of the loop of lines 74-76
RunSimulationYear ==
    /\ Len(mc_portfolio) <= Len(returns)
    /\ LET yr == Len(mc_portfolio) - 1
       IN  mc_portfolio' = Append(mc_portfolio,
               SimulationYear(cfg, mc_portfolio[yr + 1], returns[yr + 1], yr))
    /\ UNCHANGED <<cfg, returns, sc_portfolio, trackerVars, seed, calls, reconVars>>

\* run_scenario, one iteration of the loop of lines 139-154
RunScenarioYear ==
    /\ Len(sc_portfolio) <= Len(returns)
    /\ LET yr == Len(sc_portfolio) - 1
       IN  sc_portfolio' = Append(sc_portfolio,
               ScenarioYear(cfg, sc_portfolio, returns[yr + 1], yr))
    /\ UNCHANGED <<cfg, returns, mc_portfolio, trackerVars, seed, calls, reconVars>>

SimNext == BootstrapReturns \/ RunSimulationYear \/ RunScenarioYear

SimSpec == SimInit /\ [][SimNext]_vars

\* the engines have returned: all n_years columns are computed
SimulationDone == cfg # NoCfg /\ Len(mc_portfolio) = NYears + 1
ScenarioDone == cfg # NoCfg /\ Len(sc_portfolio) = NYears + 1

\* run_scenario on its own: scenarios.py lines 123-126, the bootstrapped
\* column of the year the loop reaches next
ScenarioReturns ==
    /\ Len(returns) < NYears
    /\ Len(sc_portfolio) = Len(returns) + 1
    /\ \E idx \in [Trials -> 1..Len(cfg.return_distribution)] :
        returns' = Append(returns,
                          [t \in Trials |-> cfg.return_distribution[idx[t]]])
    /\ UNCHANGED <<cfg, mc_portfolio, sc_portfolio, trackerVars, seed, calls, reconVars>>

ScenarioNext == ScenarioReturns \/ RunScenarioYear

ScenarioSpec == SimInit /\ [][ScenarioNext]_vars

----------------------------------------------------------------------------
(* Seeded calls.  np.random.default_rng(seed) is a generator whose state is *)
(* the seed, or fresh operating-system entropy when seed is None; the draws *)
(* of Generator.integers are a fixed function of that state (PCG64 is       *)
(* modelled by a linear congruence).                                        *)

\* a generator that takes fresh entropy whatever the seed
default_rng_Entropy(s, entropy) == entropy

\* statistics.py line 64: np.random.default_rng(seed)
default_rng(s, entropy) == IF s = NoSeed THEN entropy ELSE s

\* statistics.py line 65: rng.integers(0, high, size=(n_samples, n_years))
integers(rng, high) ==
    [yr \in 1..NYears |-> [t \in Trials |-> ((rng + 1) * (t + 2 * yr) + rng) % high]]

\* statistics.py lines 61-66 (non-empty historical_returns)
bootstrap_returns(historical_returns, s, entropy) ==
    LET indices == integers(default_rng(s, entropy), Len(historical_returns))
    IN  [yr \in 1..NYears |->
            [t \in Trials |-> historical_returns[indices[yr][t] + 1]]]

RECURSIVE Sorted(_)
Sorted(values) ==
    IF values = <<>> THEN <<>>
    ELSE LET i == CHOOSE i \in 1..Len(values) :
                    \A j \in 1..Len(values) : RLe(values[i], values[j])
         IN  <<values[i]>> \o Sorted(SubSeq(values, 1, i - 1)
                                     \o SubSeq(values, i + 1, Len(values)))

\* np.percentile(column, p): linear interpolation between order statistics
percentile(column, p) ==
    LET a == Sorted([t \in Trials |-> column[t]])
        h == Rat((NTrials - 1) * p, 100)
        lo == h.n \div h.d
        frac == RSub(h, Int2R(lo))
    IN  IF lo + 1 >= NTrials THEN a[NTrials]
        ELSE RAdd(a[lo + 1], RMul(frac, RSub(a[lo + 2], a[lo + 1])))

_PERCENTILE_LEVELS == {5, 25, 50, 75, 95}

\* monte_carlo.py lines 82-84, scenarios.py lines 158-160
percentiles(portfolio) ==
    [p \in _PERCENTILE_LEVELS |->
        [k \in 1..Len(portfolio) |-> percentile(portfolio[k], p)]]

RECURSIVE SimulationLoop(_, _, _)
SimulationLoop(c, ret, portfolio) ==
    IF Len(portfolio) = NYears + 1 THEN portfolio
    ELSE LET yr == Len(portfolio) - 1
         IN  SimulationLoop(c, ret,
                Append(portfolio, SimulationYear(c, portfolio[yr + 1], ret[yr + 1], yr)))

\* the n_years argument of run_scenario; NYears where the caller leaves it alone
n_years(c) == IF "n_years" \in DOMAIN c THEN c.n_years ELSE NYears

RECURSIVE ScenarioLoop(_, _, _)
ScenarioLoop(c, ret, portfolio) ==
    IF Len(portfolio) = n_years(c) + 1 THEN portfolio
    ELSE LET yr == Len(portfolio) - 1
         IN  ScenarioLoop(c, ret,
                Append(portfolio, ScenarioYear(c, portfolio, ret[yr + 1], yr)))

\* monte_carlo.py lines 29-90
run_simulation(c, s, entropy) ==
    LET ret == bootstrap_returns(c.return_distribution, s, entropy)
        portfolio == SimulationLoop(c, ret,
                        <<[t \in Trials |-> c.initial_portfolio]>>)
    IN  [portfolio_values |-> portfolio,
         success_rate |-> success_rate(portfolio),
         percentiles |-> percentiles(portfolio)]

\* scenarios.py lines 87-168
run_scenario(c, s, entropy) ==
    LET ret == bootstrap_returns(c.return_distribution, s, entropy)
        portfolio == ScenarioLoop(c, ret,
                        <<[t \in Trials |-> c.initial_portfolio]>>)
    IN  [portfolio_values |-> portfolio,
         success_rate |-> success_rate(portfolio),
         percentiles |-> percentiles(portfolio),
         median_final_value |-> percentile(portfolio[Len(portfolio)], 50),
         strategy |-> c.withdrawal_strategy]

Seeds == {NoSeed, 0, 1}
Entropy == {0, 1, 2}
Functions == {"bootstrap_returns", "run_simulation", "run_scenario"}

SeededInit ==
    /\ lots = <<>>
    /\ next_lot_id = 0
    /\ op = "idle"
    /\ req = NoReq
    /\ before = <<>>
    /\ err = "none"
    /\ disposed = <<>>
    /\ nsplits = 0
    /\ nsells = 0
    /\ wire = NoWire
    /\ returns = <<>>
    /\ mc_portfolio = <<>>
    /\ sc_portfolio = <<>>
    /\ calls = <<>>
    /\ NoRecon
    /\ seed \in Seeds
    /\ \E annual_withdrawal \in AnnualWithdrawals \ {RZero},
          inflation_rate \in InflationRates \ {RZero},
          return_distribution \in {d \in ReturnDistributions : Len(d) > 1},
          withdrawal_strategy \in WithdrawalStrategies,
          life_events \in LifeEventLists :
        cfg = [initial_portfolio |-> Int2R(4),
               annual_withdrawal |-> annual_withdrawal,
               return_distribution |-> return_distribution,
               withdrawal_strategy |-> withdrawal_strategy,
               life_events |-> life_events,
               inflation_rate |-> inflation_rate]

\* one call of bootstrap_returns, run_simulation or run_scenario with the
\* arguments cfg and seed; three calls are made in a row
SeededCall ==
    \E fn \in Functions, entropy \in Entropy :
        /\ Len(calls) < 3
        /\ calls' = Append(calls,
             [fn |-> fn,
              result |->
                IF fn = "bootstrap_returns"
                THEN bootstrap_returns(cfg.return_distribution, seed, entropy)
                ELSE IF fn = "run_simulation"
                THEN run_simulation(cfg, seed, entropy)
                ELSE run_scenario(cfg, seed, entropy)])
        /\ UNCHANGED <<cfg, seed, returns, mc_portfolio, sc_portfolio, trackerVars, reconVars>>

SeededNext == SeededCall

SeededSpec == SeededInit /\ [][SeededNext]_vars

----------------------------------------------------------------------------
(* sensitivity_analysis: one run_scenario per candidate value.  A run with  *)
(* n_years below NYears consumes the first n_years columns of the returns.  *)

\* int(val), truncation toward zero
int(val) == IF val.n >= 0 THEN val.n \div val.d ELSE -((-val.n) \div val.d)

\* scenarios.py lines 214-234: the arguments of the run for one value
run_arguments(c, vary_param, val) ==
    [initial_portfolio |-> c.initial_portfolio,
     annual_withdrawal |-> IF vary_param = "withdrawal_rate"
                           THEN RMul(c.initial_portfolio, val)
                           ELSE c.annual_withdrawal,
     return_distribution |-> c.return_distribution,
     withdrawal_strategy |-> c.withdrawal_strategy,
     life_events |-> <<>>,
     inflation_rate |-> IF vary_param = "inflation_rate" THEN val
                        ELSE c.inflation_rate,
     n_years |-> IF vary_param = "n_years" THEN int(val) ELSE n_years(c)]

\* scenarios.py lines 236-243
SensitivityResult(vary_param, val, result) ==
    [param_name |-> vary_param, param_value |-> val,
     success_rate |-> result.success_rate,
     median_final_value |-> result.median_final_value]

valid_params == {"withdrawal_rate", "inflation_rate", "n_years"}

\* a sweep that takes the withdrawal rate as the withdrawal amount
sensitivity_analysis_AbsoluteWithdrawal(c, vary_param, values, s, entropies) ==
    IF vary_param \notin valid_params THEN "ValueError"
    ELSE [k \in 1..Len(values) |->
            SensitivityResult(vary_param, values[k],
                run_scenario([run_arguments(c, vary_param, values[k])
                                EXCEPT !.annual_withdrawal =
                                    IF vary_param = "withdrawal_rate"
                                    THEN values[k] ELSE @],
                             s, entropies[k]))]

\* a sweep that does not pass its seed on to the runs
sensitivity_analysis_Unseeded(c, vary_param, values, s, entropies) ==
    IF vary_param \notin valid_params THEN "ValueError"
    ELSE [k \in 1..Len(values) |->
            SensitivityResult(vary_param, values[k],
                run_scenario(run_arguments(c, vary_param, values[k]),
                             NoSeed, entropies[k]))]

\* scenarios.py lines 171-245; entropies[k] is the entropy the k-th run takes
\* when seed is None
sensitivity_analysis(c, vary_param, values, s, entropies) ==
    IF vary_param \notin valid_params THEN "ValueError"
    ELSE [k \in 1..Len(values) |->
            SensitivityResult(vary_param, values[k],
                run_scenario(run_arguments(c, vary_param, values[k]),
                             s, entropies[k]))]

VaryParams == valid_params \cup {"n_trials"}
ValueLists(vary_param) ==
    IF vary_param = "withdrawal_rate"
    THEN {<<Rat(1, 4), Rat(1, 2)>>, <<Rat(1, 2), Rat(1, 4)>>, <<Rat(1, 2)>>,
          <<Rat(-1, 4), Rat(1, 2)>>}
    ELSE IF vary_param = "inflation_rate"
    THEN {<<RZero, ROne>>, <<ROne>>, <<ROne, ROne>>}
    ELSE IF vary_param = "n_years"
    THEN {<<ROne, Int2R(2)>>, <<Int2R(2), Rat(3, 2)>>, <<Int2R(2)>>}
    ELSE {<<ROne>>}
SweepEntropy == {0, 1}

SensitivityInit ==
    /\ lots = <<>>
    /\ next_lot_id = 0
    /\ op = "idle"
    /\ req = NoReq
    /\ before = <<>>
    /\ err = "none"
    /\ disposed = <<>>
    /\ nsplits = 0
    /\ nsells = 0
    /\ wire = NoWire
    /\ returns = <<>>
    /\ mc_portfolio = <<>>
    /\ sc_portfolio = <<>>
    /\ calls = <<>>
    /\ NoRecon
    /\ seed \in Seeds
    /\ \E inflation_rate \in InflationRates \ {RZero},
          return_distribution \in {d \in ReturnDistributions : Len(d) > 1},
          withdrawal_strategy \in WithdrawalStrategies :
        cfg = [initial_portfolio |-> Int2R(4),
               annual_withdrawal |-> ROne,
               return_distribution |-> return_distribution,
               withdrawal_strategy |-> withdrawal_strategy,
               life_events |-> <<>>,
               inflation_rate |-> inflation_rate,
               n_years |-> NYears]

\* one sweep with the arguments cfg and seed; two sweeps are made in a row
SensitivityCall ==
    \E vary_param \in VaryParams :
      \E values \in ValueLists(vary_param), entropies \in [1..2 -> SweepEntropy] :
        /\ Len(calls) < 2
        /\ calls' = Append(calls,
             [fn |-> "sensitivity_analysis",
              vary_param |-> vary_param,
              values |-> values,
              result |-> sensitivity_analysis(cfg, vary_param, values, seed,
                                              entropies)])
        /\ UNCHANGED <<cfg, seed, returns, mc_portfolio, sc_portfolio, trackerVars,
                       reconVars>>

SensitivityNext == SensitivityCall

SensitivitySpec == SensitivityInit /\ [][SensitivityNext]_vars

----------------------------------------------------------------------------
(* portfolio/reconciliation.py.  account_id and symbol strings are modelled *)
(* as integers in the order of the strings; trackers, a dict, is modelled   *)
(* as the sequence of its items in insertion order.                         *)

Transaction(account_id, symbol, type, date, quantity, price, fees) ==
    [account_id |-> account_id, symbol |-> symbol, type |-> type, date |-> date,
     quantity |-> quantity, price |-> price, fees |-> fees]

\* the key of sorted(): where position i goes among the positions sorted so far,
\* before the transactions with the same date
InsertByDate_BeforeTies(txs, sorted_idx, i) ==
    LET k == Cardinality({m \in 1..Len(sorted_idx) :
                            txs[sorted_idx[m]].date < txs[i].date})
    IN  SubSeq(sorted_idx, 1, k) \o <<i>> \o SubSeq(sorted_idx, k + 1, Len(sorted_idx))

\* the same, after the transactions with the same date (sorted() is stable)
InsertByDate(txs, sorted_idx, i) ==
    LET k == Cardinality({m \in 1..Len(sorted_idx) :
                            txs[sorted_idx[m]].date <= txs[i].date})
    IN  SubSeq(sorted_idx, 1, k) \o <<i>> \o SubSeq(sorted_idx, k + 1, Len(sorted_idx))

\* reconciliation.py line 41: sorted(transactions, key=lambda t: t["date"]),
\* as the positions of the transactions in sorted order
RECURSIVE SortedPrefix(_, _)
SortedPrefix(txs, n) ==
    IF n = 0 THEN <<>> ELSE InsertByDate(txs, SortedPrefix(txs, n - 1), n)

sorted(txs) == SortedPrefix(txs, Len(txs))

\* a dividend counts as an inflow under the rule of a transfer
_is_inflow_AnyPrice(tx_type, quantity, price) ==
    tx_type \in {"dividend", "transfer"} /\ RLt(RZero, quantity)

\* reconciliation.py lines 78-84
_is_inflow(tx_type, quantity, price) ==
    IF tx_type = "dividend" THEN RLt(RZero, price) /\ RLt(RZero, quantity)
    ELSE IF tx_type = "transfer" THEN RLt(RZero, quantity)
    ELSE FALSE

RECURSIVE SumGainLoss(_)
SumGainLoss(ds) ==
    IF ds = <<>> THEN RZero ELSE RAdd(Head(ds).gain_loss, SumGainLoss(Tail(ds)))

\* reconciliation.py lines 53-75: the tracker after txn, the gain realized, and
\* the ValueError of a sell that cannot be filled
_apply_transaction(tracker, txn) ==
    LET bought == add_buy(tracker.lots, tracker.next_lot_id, txn.date,
                          txn.quantity, txn.price, txn.fees)
        sold == sell(tracker.lots, txn.date, txn.quantity, txn.price, txn.fees,
                     "fifo", <<>>)
        same == [tracker |-> tracker, gain |-> RZero, err |-> "none"]
        buy == [tracker |-> [lots |-> bought.lots,
                             next_lot_id |-> bought.next_lot_id],
                gain |-> RZero, err |-> "none"]
    IN  IF txn.type = "buy" THEN buy
        ELSE IF txn.type = "sell"
        THEN [tracker |-> [tracker EXCEPT !.lots = sold.lots],
              gain |-> SumGainLoss(sold.disposed), err |-> sold.err]
        ELSE IF txn.type = "split"
        THEN [same EXCEPT !.tracker.lots = _apply_split(tracker.lots, txn.quantity)]
        ELSE IF _is_inflow(txn.type, txn.quantity, txn.price) THEN buy
        ELSE same

KeyOf(h) == <<h.account_id, h.symbol>>
KeyLe(a, b) == a[1] < b[1] \/ (a[1] = b[1] /\ a[2] <= b[2])

\* sorted(holdings, key=lambda h: (h["account_id"], h["symbol"]))
RECURSIVE SortByKey(_)
SortByKey(hs) ==
    IF hs = <<>> THEN <<>>
    ELSE LET rest == SortByKey(SubSeq(hs, 1, Len(hs) - 1))
             h == hs[Len(hs)]
             k == Cardinality({m \in 1..Len(rest) : KeyLe(KeyOf(rest[m]), KeyOf(h))})
         IN  SubSeq(rest, 1, k) \o <<h>> \o SubSeq(rest, k + 1, Len(rest))

\* _build_holdings without the final sort
UnsortedHoldings(trs, gains) ==
    LET held == SelectSeq(trs, LAMBDA tr : GtEps(get_total_shares(tr.lots)))
    IN  [k \in 1..Len(held) |->
            [account_id |-> held[k].key[1],
             symbol |-> held[k].key[2],
             shares |-> get_total_shares(held[k].lots),
             cost_basis |-> get_total_cost_basis(held[k].lots),
             realized_gain |-> IF held[k].key \in DOMAIN gains
                               THEN gains[held[k].key] ELSE RZero]]

\* _build_holdings that also emits the positions without shares
_build_holdings_KeepEmpty(trs, gains) ==
    SortByKey([k \in 1..Len(trs) |->
            [account_id |-> trs[k].key[1],
             symbol |-> trs[k].key[2],
             shares |-> get_total_shares(trs[k].lots),
             cost_basis |-> get_total_cost_basis(trs[k].lots),
             realized_gain |-> IF trs[k].key \in DOMAIN gains
                               THEN gains[trs[k].key] ELSE RZero]])

\* reconciliation.py lines 87-106
_build_holdings(trs, gains) == SortByKey(UnsortedHoldings(trs, gains))

\* x > 1 / den, evaluated without leaving 32 bits
Exceeds(x, den) == x.n > 0 /\ (x.d \div x.n) < den

RAbs(x) == [n |-> Abs(x.n), d |-> x.d]

\* _SHARE_TOLERANCE = 1e-6 and _COST_TOLERANCE = 0.01 as 1 / den
_SHARE_TOLERANCE == 1000000
_COST_TOLERANCE == 100

\* a comparison that uses the tolerance of cost_basis for every field
_compare_field_Coarse(account_id, symbol, computed, stored_h, field_name, tolerance) ==
    IF Exceeds(RAbs(RSub(computed[field_name], stored_h[field_name])), _COST_TOLERANCE)
    THEN <<[account_id |-> account_id, symbol |-> symbol, field |-> field_name,
            computed_value |-> computed[field_name],
            stored_value |-> stored_h[field_name]]>>
    ELSE <<>>

\* reconciliation.py lines 161-182: the records appended for one field
_compare_field(account_id, symbol, computed, stored_h, field_name, tolerance) ==
    IF Exceeds(RAbs(RSub(computed[field_name], stored_h[field_name])), tolerance)
    THEN <<[account_id |-> account_id, symbol |-> symbol, field |-> field_name,
            computed_value |-> computed[field_name],
            stored_value |-> stored_h[field_name]]>>
    ELSE <<>>

\* {(h["account_id"], h["symbol"]): h for h in hs}.get(key): the last holding
\* of the list with that key, as its position (0: None)
MapGet(hs, key) ==
    LET idx == {k \in 1..Len(hs) : KeyOf(hs[k]) = key}
    IN  IF idx = {} THEN 0 ELSE CHOOSE k \in idx : \A m \in idx : m <= k

RECURSIVE SortedKeys(_)
SortedKeys(keys) ==
    IF keys = {} THEN <<>>
    ELSE LET least == CHOOSE a \in keys : \A b \in keys : KeyLe(a, b)
         IN  <<least>> \o SortedKeys(keys \ {least})

RECURSIVE DiscrepanciesOf(_, _, _)
DiscrepanciesOf(computed, stored_hs, keys) ==
    IF keys = <<>> THEN <<>>
    ELSE LET key == Head(keys)
             c == MapGet(computed, key)
             s == MapGet(stored_hs, key)
             here ==
                IF c = 0 \/ s = 0
                THEN <<[account_id |-> key[1], symbol |-> key[2],
                        field |-> "existence",
                        computed_value |-> IF c = 0 THEN "missing" ELSE "present",
                        stored_value |-> IF s = 0 THEN "missing" ELSE "present"]>>
                ELSE _compare_field(key[1], key[2], computed[c], stored_hs[s],
                                    "shares", _SHARE_TOLERANCE)
                     \o _compare_field(key[1], key[2], computed[c], stored_hs[s],
                                       "cost_basis", _COST_TOLERANCE)
         IN  here \o DiscrepanciesOf(computed, stored_hs, Tail(keys))

\* reconciliation.py lines 109-158
detect_discrepancies(computed, stored_hs) ==
    LET all_keys == {KeyOf(computed[k]) : k \in 1..Len(computed)}
                    \cup {KeyOf(stored_hs[k]) : k \in 1..Len(stored_hs)}
    IN  DiscrepanciesOf(computed, stored_hs, SortedKeys(all_keys))

----------------------------------------------------------------------------
(* One reconciliation: reconcile_holdings(transactions), then                *)
(* detect_discrepancies(holdings, stored).                                  *)

MaxTxns == 3

TransactionInputs ==
    { Transaction(1, 2, "buy", 1, Int2R(2), Int2R(3), ROne),
      Transaction(2, 1, "buy", 2, Int2R(2), Int2R(3), RZero),
      Transaction(1, 2, "sell", 2, Int2R(2), Int2R(4), RZero),
      Transaction(1, 2, "sell", 1, Int2R(1), Int2R(4), RZero),
      Transaction(1, 2, "split", 2, Int2R(2), RZero, RZero),
      Transaction(1, 2, "dividend", 2, Int2R(1), Int2R(3), RZero),
      Transaction(1, 2, "dividend", 2, Int2R(1), RZero, RZero),
      Transaction(2, 1, "dividend", 1, RZero, Int2R(3), RZero),
      Transaction(2, 1, "transfer", 1, Int2R(2), RZero, RZero),
      Transaction(1, 2, "transfer", 1, Int2R(1), Int2R(-1), RZero),
      Transaction(2, 1, "transfer", 2, Int2R(-1), Int2R(3), RZero) }

RECURSIVE TransactionLists(_)
TransactionLists(n) ==
    IF n = 0 THEN {<<>>}
    ELSE LET shorter == TransactionLists(n - 1)
         IN  shorter \cup {Append(l, t) : l \in {x \in shorter : Len(x) = n - 1},
                                          t \in TransactionInputs}

\* the stored holdings compared with the computed ones
Perturbed(hs, dshares, dcost) ==
    [hs EXCEPT ![1].shares = RAdd(@, dshares), ![1].cost_basis = RAdd(@, dcost)]

StoredLists(hs) ==
    {hs, <<>>,
     Append(hs, [account_id |-> 2, symbol |-> 2, shares |-> ROne,
                 cost_basis |-> ROne, realized_gain |-> RZero])}
    \cup (IF hs = <<>> THEN {}
          ELSE {Tail(hs),
                Perturbed(hs, Rat(2, 1000000), RZero),
                Perturbed(hs, Rat(1, 2000000), Rat(1, 200)),
                Perturbed(hs, Int2R(10), RZero),
                Perturbed(hs, RZero, Rat(-1, 50)),
                Perturbed(hs, Int2R(-1), Int2R(5))})

ReconInit ==
    /\ lots = <<>>
    /\ next_lot_id = 0
    /\ op = "idle"
    /\ req = NoReq
    /\ before = <<>>
    /\ err = "none"
    /\ disposed = <<>>
    /\ nsplits = 0
    /\ nsells = 0
    /\ wire = NoWire
    /\ cfg = NoCfg
    /\ returns = <<>>
    /\ mc_portfolio = <<>>
    /\ sc_portfolio = <<>>
    /\ seed = NoSeed
    /\ calls = <<>>
    /\ phase = "called"
    /\ transactions \in TransactionLists(MaxTxns)
    /\ order = <<>>
    /\ replayed = 0
    /\ trackers = <<>>
    /\ realized_gains = <<>>
    /\ holdings = <<>>
    /\ stored = <<>>
    /\ discrepancies = <<>>

\* reconcile_holdings line 41
SortTransactions ==
    /\ phase = "called"
    /\ order' = sorted(transactions)
    /\ phase' = "replay"
    /\ UNCHANGED <<transactions, replayed, trackers, realized_gains, holdings,
                   stored, discrepancies, trackerVars, simVars>>

\* trackers[key]: the position of the key's item, 0 if the key is new
\* one tracker shared by every key
TrackerAt_Shared(trs, key) ==
    IF trs = <<>> THEN 0 ELSE 1

\* trackers[key] of the defaultdict: the place of the key's item, 0 if there is none
TrackerAt(trs, key) ==
    LET idx == {k \in 1..Len(trs) : trs[k].key = key}
    IN  IF idx = {} THEN 0 ELSE CHOOSE k \in idx : TRUE

TrackerLots(trs, key) ==
    IF TrackerAt(trs, key) = 0 THEN <<>> ELSE trs[TrackerAt(trs, key)].lots

\* trackers[key]: the key's tracker, a new CostBasisTracker() if there is none
TrackerOf(trs, key) ==
    IF TrackerAt(trs, key) = 0 THEN [lots |-> <<>>, next_lot_id |-> 0]
    ELSE [lots |-> trs[TrackerAt(trs, key)].lots,
          next_lot_id |-> trs[TrackerAt(trs, key)].next_lot_id]

\* the trackers and realized gains after _apply_transaction returned r for a
\* transaction of `key`, whose tracker is at place `at`
AfterTransaction(st, txn, key, at, r) ==
    [trackers |->
        IF at = 0
        THEN Append(st.trackers, [key |-> key, lots |-> r.tracker.lots,
                                  next_lot_id |-> r.tracker.next_lot_id])
        ELSE [st.trackers EXCEPT ![at] = [key |-> key, lots |-> r.tracker.lots,
                                          next_lot_id |-> r.tracker.next_lot_id]],
     realized_gains |->
        IF txn.type = "sell" /\ r.err = "none"
        THEN [k \in DOMAIN st.realized_gains \cup {key} |->
                IF k = key
                THEN RAdd(IF key \in DOMAIN st.realized_gains
                          THEN st.realized_gains[key] ELSE RZero, r.gain)
                ELSE st.realized_gains[k]]
        ELSE st.realized_gains,
     err |-> r.err]

\* reconcile_holdings lines 47-48: trackers[key] and _apply_transaction on it;
\* st = [trackers, realized_gains, err]
ReplayOne(st, txn) ==
    AfterTransaction(st, txn, <<txn.account_id, txn.symbol>>,
        TrackerAt(st.trackers, <<txn.account_id, txn.symbol>>),
        _apply_transaction(
            TrackerOf(st.trackers, <<txn.account_id, txn.symbol>>), txn))

\* reconcile_holdings lines 46-48: one iteration of the replay loop
ApplyTransaction ==
    /\ phase = "replay"
    /\ replayed < Len(order)
    /\ \E applied \in {ReplayOne([trackers |-> trackers,
                                  realized_gains |-> realized_gains,
                                  err |-> "none"],
                                 transactions[order[replayed + 1]])} :
        /\ trackers' = applied.trackers
        /\ realized_gains' = applied.realized_gains
        /\ phase' = IF applied.err = "none" THEN "replay" ELSE "raised"
    /\ replayed' = replayed + 1
    /\ UNCHANGED <<transactions, order, holdings, stored, discrepancies,
                   trackerVars, simVars>>

\* reconcile_holdings line 50
BuildHoldings ==
    /\ phase = "replay"
    /\ replayed = Len(order)
    /\ holdings' = _build_holdings(trackers, realized_gains)
    /\ phase' = "returned"
    /\ UNCHANGED <<transactions, order, replayed, trackers, realized_gains,
                   stored, discrepancies, trackerVars, simVars>>

\* detect_discrepancies(holdings, stored)
DetectDiscrepancies ==
    /\ phase = "returned"
    /\ \E stored_hs \in StoredLists(holdings) :
        /\ stored' = stored_hs
        /\ discrepancies' = detect_discrepancies(holdings, stored_hs)
    /\ phase' = "compared"
    /\ UNCHANGED <<transactions, order, replayed, trackers, realized_gains,
                   holdings, trackerVars, simVars>>

ReconNext ==
    SortTransactions \/ ApplyTransaction \/ BuildHoldings \/ DetectDiscrepancies

ReconSpec == ReconInit /\ [][ReconNext]_vars

\* reconcile_holdings as one call: the loop of lines 46-48 from the k-th
\* transaction of the sorted list, stopping at the sell that raises
RECURSIVE ReplayLoop(_, _, _, _)
ReplayLoop(txs, ord, k, st) ==
    IF k > Len(ord) \/ st.err # "none" THEN st
    ELSE ReplayLoop(txs, ord, k + 1, ReplayOne(st, txs[ord[k]]))

\* reconciliation.py lines 22-50; holdings is empty when the call raises
reconcile_holdings(txs) ==
    LET st == ReplayLoop(txs, sorted(txs), 1,
                         [trackers |-> <<>>, realized_gains |-> <<>>,
                          err |-> "none"])
    IN  [holdings |-> IF st.err = "none"
                      THEN _build_holdings(st.trackers, st.realized_gains)
                      ELSE <<>>,
         err |-> st.err]

----------------------------------------------------------------------------
(* guyton_klinger_withdrawal called on its own *)

MaxYear == 3

InitialWithdrawals == {RZero, ROne, Int2R(4)}
GKYears == 0..MaxYear
GKInflationRates == {Rat(-1, 2), RZero, Rat(1, 10), Rat(1, 2), ROne}
PreviousPortfolioValues == {Int2R(5), Int2R(6), Int2R(10)}
PortfolioValues == {Int2R(4), Int2R(5), Int2R(6), Int2R(10), Int2R(20)}

WithdrawalInit == Init

\* one call; `calls` holds the arguments and the value returned
GuytonKlingerCall ==
    \E initial_withdrawal \in InitialWithdrawals, year \in GKYears,
       inflation_rate \in GKInflationRates,
       portfolio_value \in PortfolioValues,
       previous_portfolio_value \in PreviousPortfolioValues :
        /\ calls' = <<[fn |-> "guyton_klinger_withdrawal",
                       initial_withdrawal |-> initial_withdrawal,
                       year |-> year,
                       inflation_rate |-> inflation_rate,
                       portfolio_value |-> portfolio_value,
                       previous_portfolio_value |-> previous_portfolio_value,
                       result |-> guyton_klinger_withdrawal(
                                    initial_withdrawal, year, inflation_rate,
                                    portfolio_value, previous_portfolio_value)]>>
        /\ UNCHANGED <<trackerVars, cfg, returns, mc_portfolio, sc_portfolio, seed,
                       reconVars>>

WithdrawalNext == GuytonKlingerCall

WithdrawalSpec == WithdrawalInit /\ [][WithdrawalNext]_vars

----------------------------------------------------------------------------
(* Properties of the tracker *)

SoldBy(methods) == op = "sell" /\ req.method \in methods
Succeeded == err = "none"
LotIdx == 1..Len(before)
Reduced(i) == RLt(lots[i].remaining_qty, before[i].remaining_qty)
ReducedLots == {i \in LotIdx : Reduced(i)}
Listed(i) == \E k \in 1..Len(req.lot_ids) : req.lot_ids[k] = before[i].lot_id

RECURSIVE SumQtySold(_)
SumQtySold(ds) ==
    IF ds = <<>> THEN RZero ELSE RAdd(Head(ds).qty_sold, SumQtySold(Tail(ds)))

RECURSIVE SumRemainingOf(_, _)
SumRemainingOf(ls, idx) ==
    IF idx = {} THEN RZero
    ELSE LET i == CHOOSE j \in idx : TRUE
         IN  RAdd(ls[i].remaining_qty, SumRemainingOf(ls, idx \ {i}))

\* C1: a specific_id sell that fails (unknown lot id, or the listed lots hold too
\* few shares) leaves every lot as it was before the call.
C1_FailedSpecificSellLeavesLots ==
    (SoldBy({"specific_id"})
        /\ err \in {"lot_not_found", "insufficient_in_specified_lots"})
    => lots = before

\* C2: for every method, a sell of more shares than the tracker holds fails with
\* the insufficient-shares error and leaves every lot unchanged.
C2_OversellRejectedUnchanged ==
    (op = "sell" /\ RLt(get_total_shares(before), req.quantity))
    => (err = "insufficient_shares" /\ lots = before)

C2_Witness ==
    /\ SoldBy({"fifo", "lifo", "average_cost", "specific_id"})
    /\ RLt(RZero, get_total_shares(before))
    /\ RLt(get_total_shares(before), req.quantity)
    /\ err = "insufficient_shares"

\* C3: after any sequence of add_buy, sell and split, every lot has
\* 0 <= remaining_qty <= quantity.
C3_RemainingWithinQuantity ==
    \A i \in 1..Len(lots) :
        /\ RLe(RZero, lots[i].remaining_qty)
        /\ RLe(lots[i].remaining_qty, lots[i].quantity)

C3_Witness ==
    /\ nsplits > 0
    /\ op = "sell" /\ Succeeded
    /\ \E i \in LotIdx : Reduced(i) /\ RLt(RZero, lots[i].remaining_qty)
    /\ \E i \in LotIdx : lots[i].remaining_qty = RZero

\* C4: rehydrating the lot dicts the sidecar returned reproduces the lots of the
\* in-memory tracker that took the same sells, lots with remaining_qty 0 included.
C4_SidecarChainMatchesTracker ==
    (Succeeded /\ wire.err = "none") => Rehydrate(wire.lots) = lots

\* C5: a successful FIFO (LIFO) sell takes shares from a lot only after every lot
\* with an earlier (later) acquisition date that had shares is reduced to zero,
\* and the DisposedLots come in that order of dates.
C5_DisposalByAcquisitionDate ==
    (SoldBy({"fifo", "lifo"}) /\ Succeeded) =>
        LET Sooner(j, i) == IF req.method = "fifo"
                            THEN before[j].date < before[i].date
                            ELSE before[j].date > before[i].date
        IN  /\ \A i, j \in LotIdx :
                (Reduced(i) /\ Sooner(j, i) /\ RLt(RZero, before[j].remaining_qty))
                => lots[j].remaining_qty = RZero
            /\ \A k \in 1..(Len(disposed) - 1) :
                IF req.method = "fifo"
                THEN disposed[k].lot_date <= disposed[k + 1].lot_date
                ELSE disposed[k].lot_date >= disposed[k + 1].lot_date

\* C6 as stated: a successful sell of q returns DisposedLots summing to q, lowers
\* the total shares by q, and for fifo, lifo and specific_id returns as many
\* DisposedLots as lots were reduced.
C6_DisposedCountEqualsReducedLots ==
    (op = "sell" /\ Succeeded) =>
        /\ SumQtySold(disposed) = req.quantity
        /\ RSub(get_total_shares(before), get_total_shares(lots)) = req.quantity
        /\ req.method \in {"fifo", "lifo", "specific_id"}
            => Len(disposed) = Cardinality(ReducedLots)

\* C6 amended: the sums are as stated; the DisposedLots of a fifo or lifo sell are
\* as many as the lots reduced, and those of a specific_id sell with qty_sold > 0
\* are as many as the lots reduced.
C6_PositiveDisposedEqualsReducedLots ==
    (op = "sell" /\ Succeeded) =>
        /\ SumQtySold(disposed) = req.quantity
        /\ RSub(get_total_shares(before), get_total_shares(lots)) = req.quantity
        /\ req.method \in {"fifo", "lifo"}
            => Len(disposed) = Cardinality(ReducedLots)
        /\ req.method = "specific_id"
            => Cardinality({k \in 1..Len(disposed) :
                                RLt(RZero, disposed[k].qty_sold)})
               = Cardinality(ReducedLots)

C6_Witness ==
    /\ SoldBy({"specific_id"}) /\ Succeeded
    /\ Len(disposed) = 2
    /\ Cardinality(ReducedLots) = 1

\* C7: a specific_id sell changes only remaining_qty of lots whose ids are listed,
\* and fails whenever the listed lots together hold fewer shares than requested.
C7_SpecificIdStrict ==
    SoldBy({"specific_id"}) =>
        /\ Len(lots) = Len(before)
        /\ \A i \in LotIdx :
            /\ ~Listed(i) => lots[i] = before[i]
            /\ lots[i] = [before[i] EXCEPT !.remaining_qty = lots[i].remaining_qty]
            /\ RLe(lots[i].remaining_qty, before[i].remaining_qty)
        /\ RLt(SumRemainingOf(before, {i \in LotIdx : Listed(i)}), req.quantity)
            => ~Succeeded

C7_Witness ==
    /\ SoldBy({"specific_id"})
    /\ err = "insufficient_in_specified_lots"
    /\ RLe(req.quantity, get_total_shares(before))
    /\ \E i \in LotIdx : ~Listed(i) /\ RLt(RZero, before[i].remaining_qty)

----------------------------------------------------------------------------
(* Properties of the simulation engines *)

Columns(portfolio) == 1..Len(portfolio)
SampledReturns == {returns[k][t] : k \in 1..Len(returns), t \in Trials}
DistributionReturns ==
    {cfg.return_distribution[k] : k \in 1..Len(cfg.return_distribution)}
PositiveThroughout(portfolio, t) ==
    \A k \in Columns(portfolio) : RLt(RZero, portfolio[k][t])

\* C8 as stated: every value of run_simulation and run_scenario, year 0 included,
\* is >= 0 for any distribution, strategy and life events.
C8_ValuesNeverNegative ==
    /\ \A k \in Columns(mc_portfolio) : \A t \in Trials :
        RLe(RZero, mc_portfolio[k][t])
    /\ \A k \in Columns(sc_portfolio) : \A t \in Trials :
        RLe(RZero, sc_portfolio[k][t])

\* C8 amended: in both engines the value of year 0 is initial_portfolio as given
\* and the value of every year 1..n_years is >= 0; with initial_portfolio >= 0
\* every value is >= 0.
C8_ValuesAfterYear0NeverNegative ==
    cfg # NoCfg =>
        /\ \A t \in Trials :
            /\ mc_portfolio[1][t] = cfg.initial_portfolio
            /\ sc_portfolio[1][t] = cfg.initial_portfolio
        /\ \A k \in Columns(mc_portfolio) \ {1} : \A t \in Trials :
            RLe(RZero, mc_portfolio[k][t])
        /\ \A k \in Columns(sc_portfolio) \ {1} : \A t \in Trials :
            RLe(RZero, sc_portfolio[k][t])
        /\ RLe(RZero, cfg.initial_portfolio) => C8_ValuesNeverNegative

C8_Witness ==
    /\ SimulationDone /\ ScenarioDone
    /\ RLt(RZero, cfg.initial_portfolio)
    /\ \E k \in 1..Len(cfg.life_events) :
        /\ cfg.life_events[k].type = "expense"
        /\ cfg.life_events[k].year = 0
        /\ RLt(cfg.initial_portfolio, cfg.life_events[k].amount)
    /\ cfg.withdrawal_strategy = "guyton_klinger"
    /\ \A t \in Trials : sc_portfolio[2][t] = RZero
    /\ \E t \in Trials : mc_portfolio[NYears + 1][t] = RZero
    /\ \E t \in Trials : RLt(RZero, mc_portfolio[NYears + 1][t])

\* C9 as stated: run_simulation with initial_portfolio > 0 and annual_withdrawal = 0
\* has success_rate 1 for any non-empty distribution; success_rate is in [0, 1].
C9_ZeroWithdrawalAlwaysSucceeds ==
    SimulationDone =>
        /\ RLe(RZero, success_rate(mc_portfolio))
        /\ RLe(success_rate(mc_portfolio), ROne)
        /\ (RLt(RZero, cfg.initial_portfolio) /\ cfg.annual_withdrawal = RZero)
            => success_rate(mc_portfolio) = ROne

\* C9 amended: the same for every distribution whose returns are all above -100%.
C9_ZeroWithdrawalSucceedsAboveTotalLoss ==
    SimulationDone =>
        /\ RLe(RZero, success_rate(mc_portfolio))
        /\ RLe(success_rate(mc_portfolio), ROne)
        /\ (/\ RLt(RZero, cfg.initial_portfolio)
            /\ cfg.annual_withdrawal = RZero
            /\ \A r \in DistributionReturns : RLt(Int2R(-1), r))
            => success_rate(mc_portfolio) = ROne

C9_Witness ==
    /\ SimulationDone
    /\ RLt(RZero, cfg.initial_portfolio)
    /\ cfg.annual_withdrawal = RZero
    /\ \A r \in DistributionReturns : RLt(Int2R(-1), r)
    /\ \A r \in SampledReturns : RLt(r, RZero)
    /\ success_rate(mc_portfolio) = ROne

\* C10 as stated: the success rate of run_scenario is the fraction of trials whose
\* value is strictly positive at every year 0..n_years.
C10_SuccessMeansPositiveThroughout ==
    ScenarioDone =>
        success_rate(sc_portfolio)
        = Rat(Cardinality({t \in Trials : PositiveThroughout(sc_portfolio, t)}),
              NTrials)

NoNetInflow ==
    /\ RLe(RZero, cfg.initial_portfolio)
    /\ RLe(RZero, cfg.annual_withdrawal)
    /\ RLe(Int2R(-1), cfg.inflation_rate)
    /\ \A yr \in 0..(NYears - 1) :
        RLe(_compute_event_adjustment(events_by_year(cfg.life_events, yr)), RZero)

\* C10 amended: the success rate of run_scenario is the fraction of trials whose
\* final value is strictly positive; when initial_portfolio >= 0,
\* annual_withdrawal >= 0, inflation_rate >= -1 and no year's life events net to a
\* positive adjustment, these are the trials positive at every year.
C10_SuccessMeansPositiveAtEnd ==
    ScenarioDone =>
        /\ success_rate(sc_portfolio)
           = Rat(Cardinality({t \in Trials :
                                RLt(RZero, sc_portfolio[NYears + 1][t])}), NTrials)
        /\ NoNetInflow => C10_SuccessMeansPositiveThroughout

C10_Witness ==
    /\ ScenarioDone
    /\ NoNetInflow
    /\ \E k \in 1..Len(cfg.life_events) : cfg.life_events[k].type = "windfall"
    /\ RLt(RZero, success_rate(sc_portfolio))
    /\ RLt(success_rate(sc_portfolio), ROne)
    /\ \E t \in Trials :
        sc_portfolio[NYears][t] # RZero /\ sc_portfolio[NYears + 1][t] = RZero

\* the rate of the constant_percentage strategy for a positive initial_portfolio
PercentageRate == RDiv(cfg.annual_withdrawal, cfg.initial_portfolio)
PercentageBaseCase ==
    /\ cfg.withdrawal_strategy = "constant_percentage"
    /\ RLt(RZero, cfg.initial_portfolio)
    /\ cfg.life_events = <<>>

\* C12 as stated: under constant_percentage with initial_portfolio > 0 and no life
\* events, no value is floored (what the floor yields is grown minus withdrawal)
\* and run_scenario returns success_rate 1.
C12_PercentageNeverDepletes ==
    PercentageBaseCase =>
        /\ \A k \in 1..(Len(sc_portfolio) - 1) : \A t \in Trials :
            sc_portfolio[k + 1][t]
            = RSub(RMul(sc_portfolio[k][t], RAdd(ROne, returns[k][t])),
                   RMul(sc_portfolio[k][t], PercentageRate))
        /\ ScenarioDone => success_rate(sc_portfolio) = ROne

\* C12 amended: the same when every return r of the distribution satisfies
\* 1 + r > annual_withdrawal / initial_portfolio.
C12_PercentageNeverDepletesAboveRate ==
    (PercentageBaseCase
        /\ \A r \in DistributionReturns : RLt(PercentageRate, RAdd(ROne, r)))
    => C12_PercentageNeverDepletes

C12_Witness ==
    /\ PercentageBaseCase /\ ScenarioDone
    /\ RLt(RZero, cfg.annual_withdrawal)
    /\ \A r \in DistributionReturns : RLt(PercentageRate, RAdd(ROne, r))
    /\ \E r \in SampledReturns : RLt(r, RZero)
    /\ success_rate(sc_portfolio) = ROne

----------------------------------------------------------------------------
(* Further properties of the tracker *)

\* C15: a split with ratio r > 0 multiplies quantity and remaining_qty of every
\* lot by r and divides its price by r, leaving fees and the total cost basis as
\* they were and the total shares multiplied by r; a split with ratio <= 0
\* changes nothing.
C15_SplitPreservesCostBasis ==
    op = "split" =>
        IF RLt(RZero, req.ratio)
        THEN /\ Len(lots) = Len(before)
             /\ \A i \in LotIdx :
                    lots[i] = [before[i] EXCEPT
                        !.quantity = RMul(before[i].quantity, req.ratio),
                        !.remaining_qty = RMul(before[i].remaining_qty, req.ratio),
                        !.price = RDiv(before[i].price, req.ratio)]
             /\ get_total_cost_basis(lots) = get_total_cost_basis(before)
             /\ get_total_shares(lots) = RMul(get_total_shares(before), req.ratio)
        ELSE lots = before

C15_Witness ==
    /\ op = "split"
    /\ req.ratio = Rat(1, 2)
    /\ Len(before) = 2
    /\ \E i \in LotIdx : /\ RLt(RZero, before[i].remaining_qty)
                         /\ RLt(before[i].remaining_qty, before[i].quantity)
    /\ RLt(RZero, get_total_cost_basis(lots))

ActiveBefore == {i \in LotIdx : RLt(RZero, before[i].remaining_qty)}

\* C18: a successful average_cost sell of q returns one DisposedLot with
\* qty_sold = q, cost_basis = q * (total cost basis / total shares before the
\* sale), and the date and holding period of the earliest-dated lot that had
\* shares before the sale.
C18_AverageCostSingleDisposal ==
    (SoldBy({"average_cost"}) /\ Succeeded) =>
        /\ Len(disposed) = 1
        /\ disposed[1].qty_sold = req.quantity
        /\ disposed[1].cost_basis
           = RMul(req.quantity, RDiv(get_total_cost_basis(before),
                                     get_total_shares(before)))
        /\ \E i \in ActiveBefore : disposed[1].lot_date = before[i].date
        /\ \A i \in ActiveBefore : disposed[1].lot_date <= before[i].date
        /\ disposed[1].holding_period = "long_term"
            <=> req.date - disposed[1].lot_date > 365

C18_Witness ==
    /\ SoldBy({"average_cost"}) /\ Succeeded
    /\ Cardinality(ActiveBefore) = 2
    /\ before[1].date > before[2].date
    /\ req.date - before[1].date = 365
    /\ disposed[1].holding_period = "long_term"

C20_LotsAppendOnly ==
    /\ next_lot_id = Len(lots)
    /\ \A i, j \in 1..Len(lots) : i # j => lots[i].lot_id # lots[j].lot_id
    /\ op = "add_buy" =>
        /\ Len(lots) = Len(before) + 1
        /\ SubSeq(lots, 1, Len(before)) = before
        /\ lots[Len(lots)].remaining_qty = req.quantity
        /\ lots[Len(lots)].quantity = req.quantity
        /\ lots[Len(lots)].lot_id = LotId(Len(before))
        /\ add_buy(before, Len(before), req.date, req.quantity, req.price,
                   req.fees).lot_id = LotId(Len(before))
    /\ op \in {"sell", "split"} =>
        /\ Len(lots) = Len(before)
        /\ \A i \in LotIdx : /\ lots[i].lot_id = before[i].lot_id
                             /\ lots[i].date = before[i].date

C20_Witness ==
    /\ op = "sell" /\ Succeeded
    /\ nsplits > 0
    /\ Len(lots) = 2
    /\ lots[1].remaining_qty = RZero
    /\ lots[2].lot_id = LotId(1)

RECURSIVE SumCostBasis(_)
SumCostBasis(ds) ==
    IF ds = <<>> THEN RZero ELSE RAdd(Head(ds).cost_basis, SumCostBasis(Tail(ds)))

CostBasisConserved ==
    RAdd(SumCostBasis(disposed), get_total_cost_basis(lots))
    = get_total_cost_basis(before)

\* C25: after a successful average_cost sell, the cost_basis of its DisposedLot
\* plus the total cost basis of the lots after the sale equals the total cost
\* basis of the lots before the sale.
C25_AverageCostConservesCostBasis ==
    (SoldBy({"average_cost"}) /\ Succeeded) => CostBasisConserved

\* C27: after every successful fifo, lifo or specific_id sell, the sum of the
\* cost_basis of the returned DisposedLots plus the total cost basis of the lots
\* after the sale equals the total cost basis of the lots before the sale.
C27_LotDisposalConservesCostBasis ==
    (SoldBy({"fifo", "lifo", "specific_id"}) /\ Succeeded) => CostBasisConserved

C27_Witness ==
    /\ SoldBy({"lifo"}) /\ Succeeded
    /\ Len(before) = 2
    /\ before[1].date # before[2].date
    /\ RLt(RZero, before[1].fees) /\ RLt(RZero, before[2].fees)
    /\ RLt(before[1].remaining_qty, before[1].quantity)
    /\ Len(disposed) = 2
    /\ RLt(RZero, lots[1].remaining_qty)
    /\ lots[2].remaining_qty = RZero

----------------------------------------------------------------------------
(* Further properties of the simulation engines *)

EventYears == 0..(NYears - 1)
EventsOfType(types, y) ==
    {k \in 1..Len(cfg.life_events) :
        cfg.life_events[k].year = y /\ cfg.life_events[k].type \in types}
RECURSIVE SumAmounts(_)
SumAmounts(idx) ==
    IF idx = {} THEN RZero
    ELSE LET k == CHOOSE j \in idx : TRUE
         IN  RAdd(cfg.life_events[k].amount, SumAmounts(idx \ {k}))
NetEvents(y) ==
    RSub(SumAmounts(EventsOfType({"windfall", "income_change"}, y)),
         SumAmounts(EventsOfType({"expense"}, y)))
EffectiveEvents ==
    SelectSeq(cfg.life_events,
              LAMBDA event : event.type # "savings_rate_change"
                             /\ event.year \in EventYears)
ScenarioWithdrawal(y) ==
    _compute_withdrawal(cfg.withdrawal_strategy, cfg.annual_withdrawal, y,
                        cfg.inflation_rate, sc_portfolio[y + 1],
                        cfg.initial_portfolio,
                        sc_portfolio[(IF y - 1 > 0 THEN y - 1 ELSE 0) + 1])

\* C22: when run_scenario has returned, every value it computed for year
\* y + 1 is max(grown - withdrawal + A(y), 0) with A(y) the windfall and
\* income_change amounts of year y minus its expense amounts, and every column
\* is the one the loop computes from the columns before it without the
\* savings_rate_change events and the events of years outside 0..n_years-1,
\* so the run is identical to the run without them.
C22_EventsAdjustAdditively ==
    ScenarioDone =>
        \A y \in EventYears :
            /\ \E withdrawal \in {ScenarioWithdrawal(y)}, net \in {NetEvents(y)} :
                \A t \in Trials :
                    sc_portfolio[y + 2][t]
                    = RMax(RAdd(RSub(RMul(sc_portfolio[y + 1][t],
                                          RAdd(ROne, returns[y + 1][t])),
                                     withdrawal[t]),
                                net),
                           RZero)
            /\ sc_portfolio[y + 2]
               = ScenarioYear([cfg EXCEPT !.life_events = EffectiveEvents],
                              sc_portfolio, returns[y + 1], y)

C22_Witness ==
    /\ ScenarioDone
    /\ \E k \in 1..Len(cfg.life_events) :
        cfg.life_events[k].type = "savings_rate_change"
    /\ NetEvents(1) = Int2R(-1)
    /\ Len(EffectiveEvents) = 2
    /\ \E t \in Trials :
        /\ RLt(RZero, sc_portfolio[3][t])
        /\ RSub(RMul(sc_portfolio[2][t], RAdd(ROne, returns[2][t])),
                ScenarioWithdrawal(1)[t])
           = RAdd(sc_portfolio[3][t], ROne)

NonNegativeWithdrawals ==
    /\ cfg # NoCfg
    /\ RLe(RZero, cfg.annual_withdrawal)
Exhausted(y, t) == mc_portfolio[y][t] = RZero
StaysExhausted ==
    \A t \in Trials : \A y, z \in Columns(mc_portfolio) :
        (y < z /\ Exhausted(y, t)) => Exhausted(z, t)

\* C28 as stated: in run_simulation with a non-negative annual_withdrawal, a
\* trial whose value is 0 at some year is 0 at every later year.
C28_ExhaustionAbsorbing ==
    NonNegativeWithdrawals => StaysExhausted

\* C28 amended: the same, when in addition inflation_rate >= -1, so that the
\* withdrawal of every year is non-negative.
C28_ExhaustionAbsorbingAboveFullDeflation ==
    (NonNegativeWithdrawals /\ RLe(Int2R(-1), cfg.inflation_rate))
        => StaysExhausted

C28_Witness ==
    /\ SimulationDone
    /\ NonNegativeWithdrawals /\ RLe(Int2R(-1), cfg.inflation_rate)
    /\ \E t \in Trials :
        /\ RLt(RZero, mc_portfolio[1][t])
        /\ Exhausted(2, t)
        /\ RLt(RZero, returns[2][t])
        /\ Exhausted(3, t)

PlainScenario ==
    /\ cfg # NoCfg
    /\ cfg.withdrawal_strategy = "constant_dollar"
    /\ cfg.life_events = <<>>

\* C29: with the constant_dollar strategy and no life events run_scenario
\* computes, year by year, the values run_simulation computes from the same
\* returns, and the same success rate.
C29_PlainScenarioEqualsSimulation ==
    PlainScenario =>
        /\ \A y \in Columns(mc_portfolio) \cap Columns(sc_portfolio) :
            sc_portfolio[y] = mc_portfolio[y]
        /\ (SimulationDone /\ ScenarioDone)
            => success_rate(sc_portfolio) = success_rate(mc_portfolio)

C29_Witness ==
    /\ PlainScenario
    /\ SimulationDone /\ ScenarioDone
    /\ cfg.inflation_rate # RZero
    /\ cfg.annual_withdrawal # RZero
    /\ \E t, u \in Trials :
        /\ RLt(RZero, sc_portfolio[3][t])
        /\ sc_portfolio[3][u] = RZero
        /\ sc_portfolio[2][t] # sc_portfolio[1][t]

----------------------------------------------------------------------------
(* Properties of the reconciliation *)

Sorted13 == phase \notin {"none", "called"}
Positions == 1..Len(transactions)

\* C13: the replay order is a permutation of the input in non-decreasing date
\* order, and transactions with the same date keep their input order.
C13_ReplayInStableDateOrder ==
    Sorted13 =>
        /\ Len(order) = Len(transactions)
        /\ {order[k] : k \in 1..Len(order)} = Positions
        /\ replayed <= Len(order)
        /\ \A i, j \in 1..Len(order) :
            i < j =>
                /\ transactions[order[i]].date <= transactions[order[j]].date
                /\ transactions[order[i]].date = transactions[order[j]].date
                    => order[i] < order[j]

C13_Witness ==
    /\ phase = "returned"
    /\ Len(transactions) = 3
    /\ transactions[1].type = "sell" /\ transactions[1].date = 2
    /\ transactions[2].type = "dividend" /\ transactions[2].date = 2
    /\ transactions[3].type = "buy" /\ transactions[3].date = 1
    /\ transactions[1].symbol = transactions[3].symbol
    /\ order = <<3, 1, 2>>
    /\ Len(holdings) = 1

ReplayedTxn == transactions[order[replayed + 1]]
ReplayedKey == <<ReplayedTxn.account_id, ReplayedTxn.symbol>>
ReplaysInflowRecord ==
    /\ phase = "replay"
    /\ replayed' = replayed + 1
    /\ ReplayedTxn.type \in {"dividend", "transfer"}
AppendsLotOrNothing(creates) ==
    LET was == TrackerLots(trackers, ReplayedKey)
        now == TrackerLots(trackers', ReplayedKey)
    IN  IF creates
        THEN /\ Len(now) = Len(was) + 1
             /\ SubSeq(now, 1, Len(was)) = was
             /\ now[Len(now)].date = ReplayedTxn.date
             /\ now[Len(now)].quantity = ReplayedTxn.quantity
             /\ now[Len(now)].remaining_qty = ReplayedTxn.quantity
             /\ now[Len(now)].price = ReplayedTxn.price
             /\ now[Len(now)].fees = ReplayedTxn.fees
        ELSE now = was

HoldingKeys == {KeyOf(holdings[k]) : k \in 1..Len(holdings)}

\* C16: the holdings returned are, in ascending order of (account_id, symbol), one
\* per key whose tracker holds more than 1e-9 shares after the replay, and none
\* for any other key.
C16_OneHoldingPerOpenPosition ==
    phase \in {"returned", "compared"} =>
        /\ \A key \in (1..2) \X (1..2) :
            Cardinality({k \in 1..Len(holdings) : KeyOf(holdings[k]) = key})
            = IF GtEps(get_total_shares(TrackerLots(trackers, key))) THEN 1 ELSE 0
        /\ \A k \in 1..Len(holdings) :
            holdings[k].shares
            = get_total_shares(TrackerLots(trackers, KeyOf(holdings[k])))
        /\ \A i, j \in 1..Len(holdings) :
            i < j => /\ KeyLe(KeyOf(holdings[i]), KeyOf(holdings[j]))
                     /\ KeyOf(holdings[i]) # KeyOf(holdings[j])

C16_Witness ==
    /\ phase = "returned"
    /\ Len(trackers) = 2
    /\ trackers[1].key = <<1, 2>>
    /\ trackers[1].lots # <<>>
    /\ get_total_shares(trackers[1].lots) = RZero
    /\ trackers[2].key = <<2, 1>>
    /\ Len(holdings) = 1
    /\ KeyOf(holdings[1]) = <<2, 1>>

StoredKeys == {KeyOf(stored[k]) : k \in 1..Len(stored)}
RecordsOf(key, fields) ==
    {k \in 1..Len(discrepancies) :
        /\ <<discrepancies[k].account_id, discrepancies[k].symbol>> = key
        /\ discrepancies[k].field \in fields}
HoldingOf(hs, key) == hs[CHOOSE k \in 1..Len(hs) : KeyOf(hs[k]) = key]
FieldRecord(key, field, den) ==
    LET c == HoldingOf(holdings, key)[field]
        s == HoldingOf(stored, key)[field]
        recs == RecordsOf(key, {field})
    IN  IF Exceeds(RAbs(RSub(c, s)), den)
        THEN /\ Cardinality(recs) = 1
             /\ \A k \in recs : /\ discrepancies[k].computed_value = c
                                /\ discrepancies[k].stored_value = s
        ELSE recs = {}

\* C17: detect_discrepancies returns one existence record for every key on one
\* side only, and for a key on both sides a shares record iff the shares differ
\* by more than 1e-6 and a cost_basis record iff the cost bases differ by more
\* than 0.01, each with both values, and nothing else.
C17_DiscrepanciesExact ==
    phase = "compared" =>
        /\ \A k \in 1..Len(discrepancies) :
            /\ <<discrepancies[k].account_id, discrepancies[k].symbol>>
                \in HoldingKeys \cup StoredKeys
            /\ discrepancies[k].field \in {"existence", "shares", "cost_basis"}
        /\ \A key \in HoldingKeys \cup StoredKeys :
            IF key \notin HoldingKeys \cap StoredKeys
            THEN /\ Cardinality(RecordsOf(key, {"existence"})) = 1
                 /\ RecordsOf(key, {"shares", "cost_basis"}) = {}
                 /\ \A k \in RecordsOf(key, {"existence"}) :
                    /\ discrepancies[k].computed_value
                       = IF key \in HoldingKeys THEN "present" ELSE "missing"
                    /\ discrepancies[k].stored_value
                       = IF key \in StoredKeys THEN "present" ELSE "missing"
            ELSE /\ RecordsOf(key, {"existence"}) = {}
                 /\ FieldRecord(key, "shares", 1000000)
                 /\ FieldRecord(key, "cost_basis", 100)
        /\ stored = holdings => discrepancies = <<>>

C17_Witness ==
    /\ phase = "compared"
    /\ Len(holdings) = 2
    /\ Len(discrepancies) = 1
    /\ discrepancies[1].field = "shares"
    /\ RLt(RAbs(RSub(discrepancies[1].computed_value,
                     discrepancies[1].stored_value)), Rat(1, 1000))

----------------------------------------------------------------------------
(* Properties of guyton_klinger_withdrawal *)

GKCalled == calls # <<>> /\ calls[1].fn = "guyton_klinger_withdrawal"
GKCall == calls[1]
InflationFactor(k) == RPow(RAdd(ROne, GKCall.inflation_rate), k)
InflatedBase == RMul(GKCall.initial_withdrawal, InflationFactor(GKCall.year))
Doubled ==
    /\ GKCalled
    /\ GKCall.year >= 1
    /\ RLe(RZero, GKCall.inflation_rate)
    /\ GKCall.portfolio_value = RMul(Int2R(2), GKCall.previous_portfolio_value)

\* C21 as stated: whenever the portfolio doubled year-over-year, in a year >= 1
\* with a non-negative inflation rate, the withdrawal returned is strictly
\* greater than initial_withdrawal * (1 + inflation_rate)^year.
C21_DoublingRaisesWithdrawal ==
    Doubled => RLt(InflatedBase, GKCall.result)

\* C21 amended: with a positive initial_withdrawal and f = (1 + inflation_rate)^year,
\* the doubled portfolio gives 1.1 times the inflation-adjusted base when f < 1.6
\* (prosperity rule), the base itself when 1.6 <= f <= 2.4, and 0.9 times the
\* base when f > 2.4 (capital-preservation rule).
C21_DoublingRaisesBelowFloor ==
    (Doubled /\ RLt(RZero, GKCall.initial_withdrawal)) =>
        IF RLt(InflationFactor(GKCall.year), Rat(16, 10))
        THEN /\ GKCall.result = RMul(Rat(11, 10), InflatedBase)
             /\ RLt(InflatedBase, GKCall.result)
        ELSE IF RLe(InflationFactor(GKCall.year), Rat(24, 10))
        THEN GKCall.result = InflatedBase
        ELSE GKCall.result = RMul(Rat(9, 10), InflatedBase)

C21_Witness ==
    /\ Doubled
    /\ RLt(RZero, GKCall.initial_withdrawal)
    /\ RLt(RZero, GKCall.inflation_rate)
    /\ GKCall.year = 2
    /\ RLt(InflatedBase, GKCall.result)

AfterInflationRule ==
    IF /\ RLt(GKCall.portfolio_value, GKCall.previous_portfolio_value)
       /\ RLt(RDiv(GKCall.initial_withdrawal, GKCall.previous_portfolio_value),
              RDiv(InflatedBase, GKCall.portfolio_value))
    THEN RMul(GKCall.initial_withdrawal, InflationFactor(GKCall.year - 1))
    ELSE InflatedBase
RateAfterInflationRule == RDiv(AfterInflationRule, GKCall.portfolio_value)
InitialRate == RDiv(GKCall.initial_withdrawal, GKCall.previous_portfolio_value)
CutApplies == RLt(RMul(Rat(12, 10), InitialRate), RateAfterInflationRule)
RaiseApplies == RLt(RateAfterInflationRule, RMul(Rat(8, 10), InitialRate))

\* C26: for year >= 1 and a positive initial_withdrawal, the result is the amount
\* left by the inflation rule times 0.9 when the rate after the inflation rule is
\* above 1.2 times the initial rate, times 1.1 when it is below 0.8 times the
\* initial rate, and times 1 otherwise; the cut and the raise never both apply.
C26_RulesInOrderOneAdjustment ==
    (GKCalled /\ GKCall.year >= 1 /\ RLt(RZero, GKCall.initial_withdrawal)) =>
        /\ ~(CutApplies /\ RaiseApplies)
        /\ GKCall.result
           = RMul(AfterInflationRule,
                  IF CutApplies THEN Rat(9, 10)
                  ELSE IF RaiseApplies THEN Rat(11, 10) ELSE ROne)

C26_Witness ==
    /\ GKCalled /\ GKCall.year >= 1 /\ RLt(RZero, GKCall.initial_withdrawal)
    /\ AfterInflationRule # InflatedBase
    /\ ~CutApplies
    /\ RLt(RMul(Rat(12, 10), InitialRate),
           RDiv(InflatedBase, GKCall.portfolio_value))
    /\ GKCall.result = AfterInflationRule

----------------------------------------------------------------------------
(* Independence of the keys in the reconciliation *)

TransactionKeys ==
    {<<transactions[k].account_id, transactions[k].symbol>> : k \in Positions}
TransactionsOf(key) ==
    SelectSeq(transactions, LAMBDA t : <<t.account_id, t.symbol>> = key)
OutcomeFor(hs, key) == {hs[k] : k \in {j \in 1..Len(hs) : KeyOf(hs[j]) = key}}
SameOutcomeAlone(key) ==
    OutcomeFor(holdings, key)
    = OutcomeFor(reconcile_holdings(TransactionsOf(key)).holdings, key)

----------------------------------------------------------------------------
(* Properties of sensitivity_analysis *)

Sweeps == {i \in 1..Len(calls) : calls[i].vary_param \in valid_params}
StandaloneArguments(vary_param, val) ==
    IF vary_param = "withdrawal_rate"
    THEN [cfg EXCEPT !.annual_withdrawal = RMul(cfg.initial_portfolio, val)]
    ELSE IF vary_param = "inflation_rate"
    THEN [cfg EXCEPT !.inflation_rate = val]
    ELSE [cfg EXCEPT !.n_years = val.n \div val.d]
Standalone(vary_param, val) ==
    run_scenario(StandaloneArguments(vary_param, val), seed, 0)

\* C23: a sweep returns one result per value, in input order, carrying the
\* parameter name and the value; with a seed, each result's success_rate and
\* median_final_value are those of run_scenario called on its own with that
\* seed and only the varied parameter replaced, and results of equal values
\* are equal whatever list, place or sweep they come from.
C23_OneStandaloneRunPerValue ==
    /\ \A i \in Sweeps :
        /\ Len(calls[i].result) = Len(calls[i].values)
        /\ \A k \in 1..Len(calls[i].values) :
            /\ calls[i].result[k].param_name = calls[i].vary_param
            /\ calls[i].result[k].param_value = calls[i].values[k]
            /\ seed # NoSeed =>
                /\ calls[i].result[k].success_rate
                   = Standalone(calls[i].vary_param,
                                calls[i].values[k]).success_rate
                /\ calls[i].result[k].median_final_value
                   = Standalone(calls[i].vary_param,
                                calls[i].values[k]).median_final_value
    /\ seed # NoSeed =>
        \A i, j \in Sweeps :
            calls[i].vary_param = calls[j].vary_param =>
                \A k \in 1..Len(calls[i].values), l \in 1..Len(calls[j].values) :
                    calls[i].values[k] = calls[j].values[l]
                        => calls[i].result[k] = calls[j].result[l]

C23_Witness ==
    /\ seed # NoSeed
    /\ Len(calls) = 2
    /\ calls[1].vary_param = "withdrawal_rate"
    /\ calls[2].vary_param = "withdrawal_rate"
    /\ calls[1].values = <<Rat(1, 4), Rat(1, 2)>>
    /\ calls[2].values = <<Rat(1, 2), Rat(1, 4)>>
    /\ calls[1].result[1] = calls[2].result[2]
    /\ calls[1].result[1].median_final_value
       # calls[1].result[2].median_final_value

RateSweeps ==
    {i \in Sweeps : calls[i].vary_param = "withdrawal_rate"}
ValuesUnder(rate) == Standalone("withdrawal_rate", rate).portfolio_values
NeverAbove(high, low) ==
    \A y \in 1..Len(high) : \A t \in Trials : RLe(high[y][t], low[y][t])
MonotoneIn(i, k, l) ==
    RLe(calls[i].values[k], calls[i].values[l]) =>
        /\ NeverAbove(ValuesUnder(calls[i].values[l]),
                      ValuesUnder(calls[i].values[k]))
        /\ RLe(calls[i].result[l].success_rate, calls[i].result[k].success_rate)
SeededConstantDollar ==
    /\ seed # NoSeed
    /\ cfg # NoCfg
    /\ cfg.withdrawal_strategy = "constant_dollar"

\* C24 as stated: with constant_dollar and a seed, for any two rates a <= b of a
\* withdrawal_rate sweep every trial's value under b is at every year at most
\* its value under a, and the success rate under b is at most that under a.
C24_SuccessNonIncreasingInRate ==
    SeededConstantDollar =>
        \A i \in RateSweeps : \A k, l \in 1..Len(calls[i].values) :
            MonotoneIn(i, k, l)

\* C24 amended: the same for rates 0 <= a <= b, a non-negative initial_portfolio
\* and an inflation_rate of at least -1.
C24_SuccessNonIncreasingInRateAboveFullDeflation ==
    (/\ SeededConstantDollar
     /\ RLe(RZero, cfg.initial_portfolio)
     /\ RLe(Int2R(-1), cfg.inflation_rate)) =>
        \A i \in RateSweeps : \A k, l \in 1..Len(calls[i].values) :
            RLe(RZero, calls[i].values[k]) => MonotoneIn(i, k, l)

C24_Witness ==
    /\ SeededConstantDollar
    /\ RLe(Int2R(-1), cfg.inflation_rate)
    /\ \E i \in RateSweeps :
        /\ calls[i].values = <<Rat(1, 4), Rat(1, 2)>>
        /\ RLt(calls[i].result[2].median_final_value,
               calls[i].result[1].median_final_value)
        /\ RLt(RZero, calls[i].result[2].success_rate)
        /\ RLt(calls[i].result[1].success_rate, ROne)

====
